---- MODULE Spec2Model ----
(***************************************************************************)
(* Scene plan normalisation (src/src/validate/normalizer.py), the plan     *)
(* model and its document (src/src/planner/structured_plan.py), the        *)
(* per-object plan builder and the iterative flow                          *)
(* (src/src/orchestrator/interactive.py), and the primitive builders of    *)
(* the viewer, Manim and Blender consumers.                                *)
(*                                                                         *)
(* Numbers.  Every Python float or int is held as an integer count of      *)
(* thousandths: 0.05 is 50, 0.01 is 10, 1.0 is 1000, 100 is 100000.  The   *)
(* code only compares, clamps and truncates these values, all of which are *)
(* exact on thousandths.                                                   *)
(*                                                                         *)
(* Optional values.  A Python None / missing dict key is the empty         *)
(* sequence << >>, a present value v is the one-element sequence <<v>>.    *)
(*                                                                         *)
(* Plans are values: normalize_plan mutates its argument in place and      *)
(* returns it, which is modelled as the variable plan taking the returned  *)
(* value; the part on iterative() keeps the identity of the instances.     *)
(***************************************************************************)
EXTENDS Integers, Sequences, FiniteSets, TLC

VARIABLES
    pc,            \* position of the flow ("loaded", "approved", "normalized", ...)
    plan,          \* the ScenePlan the flow holds (mutated in place by normalize_plan)
    given,         \* the plan as it was handed to the first normalize_plan call
    before,        \* the plan as it was right before the latest normalize_plan call
    kb,            \* what synthesize_kitbash returned to _build_object_plan
    object_entry,  \* the approved object handed to _build_object_plan
    rf,            \* reality factor of the run
    max_parts,     \* part budget of the run
    doc,           \* the Scene Plan document read from or written to a file
    heap,          \* iterative(): the ObjectSpec instances, an instance is its index
    per_object,    \* iterative(): per approved object, its plan's object list
                   \* (instances) and the objects of its written document
    finalized_parts, \* iterative(): the list finalized_parts (instances)
    combined,      \* iterative(): the combined plan, as per_object; << >> before
    obj,           \* the object of a document that is given to the builders
    mesh,          \* what the viewer's make_mesh made of it; << >> before
    mobject,       \* what Manim's build_mobject made of it; << >> before
    bobject,       \* what Blender's build_primitive made of it; << >> before
    scene,         \* the objects and the camera look_at of a document a consumer loads
    frames,        \* the camera framing of the viewer, of Manim and of Blender
    text,          \* the text of a file given to _load_json_lenient, as tokens
    loaded,        \* what _load_json_lenient returned or raised; << >> before
    env,           \* the environment variables iterative() reads
    idx,           \* iterative(): the number of the approved object in work
    sketches,      \* the per-object plan documents under sketches/, in order
    combined_json, \* the file combined_plan.json: "absent", "partial" or "complete"
    processes,     \* the renderer processes that were spawned, in order
    rc_view,       \* what run_pyviewer_preview returned for the object in work
    schema,        \* the schema given to harden_schema (changed in place)
    passes,        \* how often harden_schema has been applied to it
    first          \* the schema after the first application; << >> before

iterVars == <<heap, per_object, finalized_parts, combined>>

geomVars == <<obj, mesh, mobject, bobject>>

sceneVars == <<scene, frames>>

loadVars == <<text, loaded>>

runVars == <<env, idx, sketches, combined_json, processes, rc_view>>

schemaVars == <<schema, passes, first>>

consumerVars == <<scene, frames, text, loaded, env, idx, sketches, combined_json,
                  processes, rc_view, schema, passes, first>>

vars == <<pc, plan, given, before, kb, object_entry, rf, max_parts, doc,
          heap, per_object, finalized_parts, combined, obj, mesh, mobject, bobject,
          scene, frames, text, loaded, env, idx, sketches, combined_json,
          processes, rc_view, schema, passes, first>>

(***************************************************************************)
(* Bounds of the model.                                                    *)
(***************************************************************************)
MaxObjs == 2       \* objects in a loaded plan
MaxVecLen == 4     \* components of the longest input vector
MaxEntries == 2    \* entries in a synthesis result
MaxKbParts == 2    \* parts of one synthesis entry
MaxApproved == 2   \* approved objects of one run of iterative()
MaxScene == 2      \* objects of a document a consumer loads
MaxText == 4       \* tokens of the text of a file
MaxDepth == 2      \* keywords around the innermost subschema of a schema

(***************************************************************************)
(* structured_plan.py                                                      *)
(***************************************************************************)
PrimitiveType == {"cube", "sphere", "cylinder", "cone", "plane", "torus"}

\* mutant of clamp_unit: only the upper limit is applied
clamp_unit_no_lower(v) == IF v < 1000 THEN v ELSE 1000

\* Color.clamp_unit: max(0.0, min(1.0, float(v)))
clamp_unit(v) ==
    LET m == IF v < 1000 THEN v ELSE 1000
    IN  IF m > 0 THEN m ELSE 0

\* Color(r=, g=, b=): the field validator runs on construction
Color(r, g, b) == [r |-> clamp_unit(r), g |-> clamp_unit(g), b |-> clamp_unit(b)]

\* Transform(): default_factory values
DefaultLocation == <<0, 0, 0>>
DefaultRotation == <<0, 0, 0>>
DefaultScale == <<1000, 1000, 1000>>

Transform(location, rotation_degrees, scale) ==
    [location |-> location, rotation_degrees |-> rotation_degrees, scale |-> scale]

DefaultTransform == Transform(DefaultLocation, DefaultRotation, DefaultScale)

\* Keyframe(time=, location=, rotation_degrees=, scale=): no validator on any field
Keyframe(time, location, rotation_degrees, scale) ==
    [time |-> time, location |-> location,
     rotation_degrees |-> rotation_degrees, scale |-> scale]

\* Animation(location_keys=, rotation_keys=, scale_keys=)
Animation(location_keys, rotation_keys, scale_keys) ==
    [location_keys |-> location_keys, rotation_keys |-> rotation_keys,
     scale_keys |-> scale_keys]

\* ObjectSpec(name=, type=, color=, dimensions=, transform=): animation is None
ObjectSpec(name, type, color, dimensions, transform) ==
    [name |-> name, type |-> type, color |-> color,
     dimensions |-> dimensions, transform |-> transform, animation |-> <<>>]

\* CameraSpec(): name "Camera", default transform, no look_at, no animation, 35 mm
CameraSpec ==
    [name |-> "Camera", transform |-> DefaultTransform, look_at |-> <<>>,
     animation |-> <<>>, focal_length_mm |-> 35000]

\* RenderSettings(): 5.0 s, 24 fps, 1280 x 720, background (0.05, 0.08, 0.12)
RenderSettings ==
    [duration_seconds |-> 5000, fps |-> 24000,
     resolution_x |-> 1280000, resolution_y |-> 720000,
     background_color |-> Color(50, 80, 120)]

\* ScenePlan(objects=...): version "1.0", no description, render and camera from
\* their default factories
ScenePlan(objects) ==
    [version |-> "1.0", description |-> <<>>,
     render |-> RenderSettings, camera |-> CameraSpec, objects |-> objects]

(***************************************************************************)
(* normalizer.py                                                           *)
(***************************************************************************)
\* mutant of SUPPORTED: torus was left out
SUPPORTED_without_torus == {"cube", "sphere", "cylinder", "cone", "plane"}

SUPPORTED == {"cube", "sphere", "cylinder", "cone", "plane", "torus"}

\* mutant of _clamp: the upper bound is forgotten
_clamp_no_upper(v, lo, hi) == IF v < lo THEN lo ELSE v

\* max(lo, min(hi, float(v)))
_clamp(v, lo, hi) ==
    LET m == IF v < hi THEN v ELSE hi
    IN  IF m > lo THEN m ELSE lo

\* int(x): truncation toward zero
int(x) == IF x >= 0 THEN (x \div 1000) * 1000 ELSE -(((-x) \div 1000) * 1000)

\* mutant of _clamp_vec: clamps first and zero-fills afterwards
_clamp_vec_pad_after(vals, lo, hi, length) ==
    [i \in 1..length |-> IF i <= Len(vals) THEN _clamp(vals[i], lo, hi) ELSE 0]

\* mutant of _clamp_vec: zero-fills, but keeps the components beyond length
_clamp_vec_no_cut(vals, lo, hi, length) ==
    LET n == IF Len(vals) > length THEN Len(vals) ELSE length
    IN  [i \in 1..n |-> IF i <= Len(vals) THEN _clamp(vals[i], lo, hi)
                                          ELSE _clamp(0, lo, hi)]

\* arr = list(vals) + [0.0] * max(0, length - len(vals)); clamp arr[0..length-1]
_clamp_vec(vals, lo, hi, length) ==
    LET fill == IF length - Len(vals) > 0 THEN length - Len(vals) ELSE 0
        arr  == vals \o [i \in 1..fill |-> 0]
    IN  [i \in 1..length |-> _clamp(arr[i], lo, hi)]

\* mutant of normalize_render: fps and resolution are left as they came
normalize_render_duration_only(r) ==
    [r EXCEPT !.duration_seconds = _clamp(r.duration_seconds, 500, 5000)]

\* lines 32-38: clamp render settings
normalize_render(r) ==
    [r EXCEPT !.duration_seconds = _clamp(r.duration_seconds, 500, 5000),
              !.fps = int(_clamp(r.fps, 12000, 60000)),
              !.resolution_x = int(_clamp(r.resolution_x, 320000, 1920000)),
              !.resolution_y = int(_clamp(r.resolution_y, 180000, 1080000))]

\* lines 41-45: clamp the camera transform
normalize_camera(cam) ==
    [cam EXCEPT !.transform =
        Transform(_clamp_vec(cam.transform.location, -100000, 100000, 3),
                  _clamp_vec(cam.transform.rotation_degrees, -360000, 360000, 3),
                  _clamp_vec(cam.transform.scale, 50, 50000, 3))]

abs(x) == IF x < 0 THEN -x ELSE x

\* mutant of level_plane: the rotation is kept, only z is snapped
level_plane_keep_rotation(o) ==
    IF o.type = "plane"
    THEN IF abs(o.transform.location[3]) < 10
         THEN [o EXCEPT !.transform.location[3] = 0]
         ELSE o
    ELSE o

\* lines 58-62: planes are made horizontal, a z close to zero is snapped to 0
level_plane(o) ==
    IF o.type = "plane"
    THEN LET flat == [o EXCEPT !.transform.rotation_degrees = <<0, 0, 0>>]
         IN  IF abs(flat.transform.location[3]) < 10
             THEN [flat EXCEPT !.transform.location[3] = 0]
             ELSE flat
    ELSE o

\* lines 53-62: the body of the loop for a supported object
normalize_object(o) ==
    level_plane(
        [o EXCEPT !.transform =
                      Transform(_clamp_vec(o.transform.location, -100000, 100000, 3),
                                _clamp_vec(o.transform.rotation_degrees, -360000, 360000, 3),
                                _clamp_vec(o.transform.scale, 50, 50000, 3)),
                  !.dimensions = _clamp_vec(o.dimensions, 50, 50000, 3)])

\* mutant of objs_append: the object is put in front
objs_prepend(objs, o) == <<o>> \o objs

\* line 64: objs.append(o)
objs_append(objs, o) == Append(objs, o)

\* lines 48-64: for o in plan.objects, from index i on, objs collected so far
RECURSIVE normalize_objects(_, _, _)
normalize_objects(objects, i, objs) ==
    IF i > Len(objects)
    THEN objs
    ELSE normalize_objects(objects, i + 1,
             IF objects[i].type \notin SUPPORTED
             THEN objs
             ELSE objs_append(objs, normalize_object(objects[i])))

\* lines 69-74: ObjectSpec(name="DefaultCube", type="cube", color=..., dimensions=[1,1,1])
DefaultCube ==
    ObjectSpec("DefaultCube", "cube", Color(600, 700, 900), <<1000, 1000, 1000>>,
               DefaultTransform)

\* mutant of ensure_one_object: nothing is inserted
ensure_nothing(objs) == objs

\* lines 67-75: if not objs: objs = [DefaultCube]
ensure_one_object(objs) == IF objs = <<>> THEN <<DefaultCube>> ELSE objs

normalize_plan(p) ==
    [p EXCEPT !.render  = normalize_render(p.render),
              !.camera  = normalize_camera(p.camera),
              !.objects = ensure_one_object(normalize_objects(p.objects, 1, <<>>))]

(***************************************************************************)
(* interactive.py                                                          *)
(***************************************************************************)
\* dict.get(key, default) on an optional value
Get(opt, default) == IF opt = <<>> THEN default ELSE opt[1]

\* Python truthiness of an optional string: missing and "" are both falsy
Truthy(opt) == opt # <<>> /\ opt[1] # ""

\* mutant of _max_parts_for: the reality factor is the budget as it is
_max_parts_for_unclamped(reality_factor) == reality_factor

\* max(1, min(rf_int, 100))
_max_parts_for(reality_factor) ==
    LET m == IF reality_factor < 100 THEN reality_factor ELSE 100
    IN  IF m > 1 THEN m ELSE 1

\* lines 52-58: the object's own color, when it has r, g and b
preferred_color(entry) == entry.color

\* lines 63-69 and 96-102: the single box; transform given as {"location": [0, 0, 0.5]}
PlaceholderCube(entry, color) ==
    [name |-> Get(entry.name, "Object") \o "_Cube",
     type |-> "cube",
     dimensions |-> <<1000, 1000, 1000>>,
     transform |-> Transform(<<0, 0, 500>>, DefaultRotation, DefaultScale),
     color |-> color]

Gray == [r |-> 700, g |-> 700, b |-> 700]

\* line 80: entry.get("name") or object_entry.get("name") or "Object"
Prefix(e, entry) ==
    IF Truthy(e.name) THEN e.name[1]
    ELSE IF Truthy(entry.name) THEN entry.name[1]
    ELSE "Object"

\* lines 83-93: the dict appended to parts for one synthesized part
PartDict(prefix, part, preferred) ==
    [name |-> prefix \o "_" \o Get(part.name, "Part"),
     type |-> part.type,
     dimensions |-> Get(part.dimensions, <<1000, 1000, 1000>>),
     transform |-> Transform(Get(part.location, <<0, 0, 0>>),
                             Get(part.rotation_degrees, <<0, 0, 0>>),
                             <<1000, 1000, 1000>>),
     color |-> IF preferred # <<>> THEN preferred[1] ELSE Get(part.color, Gray)]

\* entry.get("parts", [])[:max_parts]
Slice(parts, n) == SubSeq(parts, 1, IF Len(parts) < n THEN Len(parts) ELSE n)

\* lines 79-93: for entry in kb: for part in entry.parts[:max_parts]: parts.append(...)
RECURSIVE CollectParts(_, _, _, _)
CollectParts(k, entry, preferred, budget) ==
    IF k = <<>>
    THEN <<>>
    ELSE LET e      == Head(k)
             prefix == Prefix(e, entry)
             sl     == Slice(e.parts, budget)
         IN  [j \in 1..Len(sl) |-> PartDict(prefix, sl[j], preferred)]
             \o CollectParts(Tail(k), entry, preferred, budget)

\* lines 94-102: fallback simple cube when no part was collected
PartsOrFallback(parts, entry) ==
    IF parts = <<>> THEN <<PlaceholderCube(entry, Gray)>> ELSE parts

\* pydantic validation of ScenePlan(objects=[dict, ...]): every type must be a PrimitiveType
Validates(dicts) == \A i \in 1..Len(dicts) : dicts[i].type \in PrimitiveType

\* pydantic construction of the ObjectSpec of one dict (Color clamps itself)
FromDict(d) ==
    ObjectSpec(d.name, d.type, Color(d.color.r, d.color.g, d.color.b),
               d.dimensions, d.transform)

\* ScenePlan(description=..., objects=[dict, ...])
ConstructPlan(description, dicts) ==
    [ScenePlan([i \in 1..Len(dicts) |-> FromDict(dicts[i])])
        EXCEPT !.description = <<description>>]

(***************************************************************************)
(* Inputs.                                                                 *)
(***************************************************************************)
\* Types of the objects of a loaded plan: three supported ones and an unsupported one
\* (a type is assignable after construction, which pydantic does not validate).
InputTypes == {"cube", "plane", "torus", "teapot"}

Profiles == {"nominal", "extreme", "edge", "short", "long"}

\* The four vectors and the color of an input object, by profile.
ProfileVecs(p) ==
    CASE p = "nominal" ->
           [location |-> <<0, 0, 4>>, rotation_degrees |-> <<10000, 20000, 30000>>,
            scale |-> <<1000, 1000, 1000>>, dimensions |-> <<1000, 1000, 1000>>,
            color |-> Color(800, 800, 800)]
      [] p = "extreme" ->
           [location |-> <<-100001, 100001, 10>>,
            rotation_degrees |-> <<-360001, 360001, 720000>>,
            scale |-> <<49, 50001, 0>>, dimensions |-> <<-1000, 60000, 49>>,
            color |-> Color(-100, 1001, 500)]
      [] p = "edge" ->
           [location |-> <<-100000, 100000, -2000>>,
            rotation_degrees |-> <<-360000, 360000, -45000>>,
            scale |-> <<50, 50000, 2000>>, dimensions |-> <<50000, 50, 600>>,
            color |-> Color(0, 1000, 300)]
      [] p = "short" ->
           [location |-> <<2000>>, rotation_degrees |-> <<>>,
            scale |-> <<2000, 3000>>, dimensions |-> <<500>>,
            color |-> Color(200, 200, 200)]
      [] p = "long" ->
           [location |-> [i \in 1..MaxVecLen |-> IF i = 3 THEN -9 ELSE 500 * i],
            rotation_degrees |-> [i \in 1..MaxVecLen |-> 90000 * i],
            scale |-> [i \in 1..MaxVecLen |-> 100000 - 30000 * i],
            dimensions |-> [i \in 1..MaxVecLen |-> 20 * i],
            color |-> Color(900, 100, 100)]

Digit == <<"1", "2", "3", "4", "5", "6", "7", "8", "9">>

InputObject(i, t, p) ==
    LET v == ProfileVecs(p)
    IN  ObjectSpec("obj" \o Digit[i], t, v.color, v.dimensions,
                   Transform(v.location, v.rotation_degrees, v.scale))

\* The object list of a loaded plan: n objects, object i of type and profile c[i].
InputObjects(n, c) == [i \in 1..n |-> InputObject(i, c[i][1], c[i][2])]

RenderSamples ==
    { [duration_seconds |-> 2000, fps |-> 24000, resolution_x |-> 1280000,
       resolution_y |-> 720000, background_color |-> Color(50, 80, 120)],
      [duration_seconds |-> 499, fps |-> 61000, resolution_x |-> 640000,
       resolution_y |-> 179000, background_color |-> Color(0, 0, 0)],
      [duration_seconds |-> 5001, fps |-> 11000, resolution_x |-> 1921000,
       resolution_y |-> 1081000, background_color |-> Color(1000, 1000, 1000)],
      [duration_seconds |-> 500, fps |-> 60000, resolution_x |-> 320000,
       resolution_y |-> 1080000, background_color |-> Color(50, 80, 120)],
      [duration_seconds |-> 5000, fps |-> 12000, resolution_x |-> 1920000,
       resolution_y |-> 180000, background_color |-> Color(50, 80, 120)],
      [duration_seconds |-> -1000, fps |-> 0, resolution_x |-> 319000,
       resolution_y |-> 0, background_color |-> Color(50, 80, 120)] }

CameraSamples ==
    { [CameraSpec EXCEPT
          !.transform = Transform(ProfileVecs(p).location, ProfileVecs(p).rotation_degrees,
                                  ProfileVecs(p).scale)] : p \in {"nominal", "extreme", "short"} }

\* Render settings and camera of a loaded plan: in-range settings with every camera,
\* every settings sample with the default camera.
Headers ==
    { <<r, c>> \in RenderSamples \X (CameraSamples \cup {CameraSpec}) :
          r.duration_seconds = 2000 \/ c = CameraSpec }

\* Approved objects as the extraction service returns them.
ObjectEntries ==
    { [name |-> <<"Chair">>, color |-> <<>>],
      [name |-> <<"Lamp">>,  color |-> <<[r |-> 1500, g |-> 200, b |-> -300]>>] }

\* Parts as the synthesis service may return them (name filled in by position).
PartSamples ==
    { [type |-> "cube", dimensions |-> << <<2000, 1000>> >>,
       location |-> << <<0, 0, 4>> >>, rotation_degrees |-> << <<0, 90000, 0>> >>,
       color |-> << [r |-> 1200, g |-> 500, b |-> -100] >>],
      [type |-> "teapot", dimensions |-> << <<1000, 1000, 1000>> >>,
       location |-> << <<0, 0, 1000>> >>, rotation_degrees |-> << <<0, 0, 0>> >>,
       color |-> << [r |-> 300, g |-> 300, b |-> 300] >>],
      [type |-> "plane", dimensions |-> <<>>, location |-> <<>>,
       rotation_degrees |-> <<>>, color |-> <<>>] }

NamedPart(s, j) ==
    [name |-> IF s.type = "plane" THEN <<>> ELSE <<"part" \o Digit[j]>>,
     type |-> s.type, dimensions |-> s.dimensions, location |-> s.location,
     rotation_degrees |-> s.rotation_degrees, color |-> s.color]

PartLists ==
    UNION { { [j \in 1..n |-> NamedPart(c[j], j)] : c \in [1..n -> PartSamples] } :
              n \in 0..MaxKbParts }

\* A synthesis result of n entries with the part lists c[1..n]; the first entry
\* carries no name of its own, the later ones do.
KbResult(n, c) ==
    [k \in 1..n |-> [name |-> IF k = 1 THEN <<>> ELSE <<"kit" \o Digit[k]>>,
                     parts |-> c[k]]]

RealityFactors == {0, 1, 2}

(***************************************************************************)
(* The state machine.                                                      *)
(***************************************************************************)
NoPlan == ScenePlan(<<>>)

\* No document has been read or written.
NoDoc == <<>>

\* No object has been given to a builder.
NoObject ==
    [type |-> "cube", dimensions |-> <<1000, 1000, 1000>>, transform |-> DefaultTransform]

GeomIdle ==
    /\ obj = NoObject
    /\ mesh = <<>>
    /\ mobject = <<>>
    /\ bobject = <<>>

\* No consumer has loaded a document.
NoFrames == [viewer |-> <<>>, manim |-> <<>>, blender |-> <<>>]

SceneIdle ==
    /\ scene = [objects |-> <<>>, look_at |-> <<>>]
    /\ frames = NoFrames

LoadIdle ==
    /\ text = <<>>
    /\ loaded = <<>>

\* no variable of the environment is set
NoEnv == [REALITY_FACTOR |-> <<>>, KITBASH_MAX_PARTS |-> <<>>, RENDER_BACKEND |-> <<>>]

RunIdle ==
    /\ env = NoEnv
    /\ idx = 0
    /\ sketches = <<>>
    /\ combined_json = "absent"
    /\ processes = <<>>
    /\ rc_view = <<>>

SchemaIdle ==
    /\ schema = <<>>
    /\ passes = 0
    /\ first = <<>>

ConsumerIdle ==
    /\ SceneIdle
    /\ LoadIdle
    /\ RunIdle
    /\ SchemaIdle

\* iterative() has not built anything.
IterIdle ==
    /\ heap = <<>>
    /\ per_object = <<>>
    /\ finalized_parts = <<>>
    /\ combined = <<>>

\* no flow of the orchestrator is under way
FlowIdle ==
    /\ plan = NoPlan
    /\ given = NoPlan
    /\ before = NoPlan
    /\ kb = <<>>
    /\ object_entry = [name |-> <<>>, color |-> <<>>]
    /\ rf = 5
    /\ max_parts = _max_parts_for(5)
    /\ doc = NoDoc
    /\ IterIdle
    /\ GeomIdle

\* A plan document has been loaded into a ScenePlan.
InitLoaded ==
    /\ pc = "loaded"
    /\ \E h \in Headers, n \in 0..MaxObjs :
           \E c \in [1..n -> InputTypes \X Profiles] :
               plan = [ScenePlan(InputObjects(n, c)) EXCEPT !.render = h[1], !.camera = h[2]]
    /\ given = plan
    /\ before = plan
    /\ kb = <<>>
    /\ object_entry = [name |-> <<>>, color |-> <<>>]
    /\ rf = 5
    /\ max_parts = _max_parts_for(5)
    /\ doc = NoDoc
    /\ IterIdle
    /\ GeomIdle
    /\ ConsumerIdle

\* iterative() has an approved object and the run's reality factor (lines 190-196, 209).
InitApproved ==
    /\ pc = "approved"
    /\ plan = NoPlan
    /\ given = NoPlan
    /\ before = NoPlan
    /\ kb = <<>>
    /\ object_entry \in ObjectEntries
    /\ rf \in RealityFactors
    /\ max_parts = _max_parts_for(rf)
    /\ doc = NoDoc
    /\ IterIdle
    /\ GeomIdle
    /\ ConsumerIdle

Init == InitLoaded \/ InitApproved

\* normalize_plan(plan) on a loaded plan
NormalizeLoaded ==
    /\ pc = "loaded"
    /\ before' = plan
    /\ plan' = normalize_plan(plan)
    /\ pc' = "normalized"
    /\ UNCHANGED <<given, kb, object_entry, rf, max_parts, doc>>
    /\ UNCHANGED iterVars
    /\ UNCHANGED geomVars
    /\ UNCHANGED consumerVars

\* normalize_plan(plan) on a plan that was normalized before (as iterative() does
\* with the objects of the per-object plans, line 274)
NormalizeAgain ==
    /\ pc = "normalized"
    /\ before' = plan
    /\ plan' = normalize_plan(plan)
    /\ pc' = "renormalized"
    /\ UNCHANGED <<given, kb, object_entry, rf, max_parts, doc>>
    /\ UNCHANGED iterVars
    /\ UNCHANGED geomVars
    /\ UNCHANGED consumerVars

\* The end of _build_object_plan: ScenePlan(objects=dicts), then normalize_plan.
\* A ValidationError of the constructor leaves the function (and iterative()).
Finish(description, dicts, result) ==
    /\ kb' = result
    /\ IF Validates(dicts)
       THEN /\ given' = ConstructPlan(description, dicts)
            /\ before' = ConstructPlan(description, dicts)
            /\ plan' = normalize_plan(ConstructPlan(description, dicts))
            /\ pc' = "normalized"
       ELSE /\ pc' = "raised"
            /\ UNCHANGED <<plan, given, before>>
    /\ UNCHANGED <<object_entry, rf, max_parts, doc>>
    /\ UNCHANGED iterVars
    /\ UNCHANGED geomVars
    /\ UNCHANGED consumerVars

\* _build_object_plan(object_entry, rf, max_parts)
BuildObjectPlan ==
    /\ pc = "approved"
    /\ LET preferred == preferred_color(object_entry)
       IN  IF rf <= 0
           THEN Finish("placeholder for " \o Get(object_entry.name, "Object"),
                       <<PlaceholderCube(object_entry, Get(preferred, Gray))>>, <<>>)
           ELSE \E n \in 0..MaxEntries :
                    \E c \in [1..n -> PartLists] :
                        Finish("kitbash for " \o Get(object_entry.name, "Object"),
                               PartsOrFallback(
                                   CollectParts(KbResult(n, c), object_entry, preferred,
                                                max_parts),
                                   object_entry),
                               KbResult(n, c))

Next == NormalizeLoaded \/ NormalizeAgain \/ BuildObjectPlan

Spec == Init /\ [][Next]_vars

(***************************************************************************)
(* The Scene Plan document.                                                *)
(*                                                                         *)
(* A document is the JSON object of a plan.  Every JSON object is a record *)
(* whose fields are optional: << >> is a key that is absent, <<v>> a key   *)
(* that is present with value v.  A value of an Optional field is itself   *)
(* << >> (null) or <<v>>.  Validation (pydantic, from the declarations of  *)
(* structured_plan.py) fills absent keys from the field defaults, runs the *)
(* Color validator, checks the Literal of the type and the int fields, and *)
(* raises when a required key is absent.  json.dump / json.load of finite  *)
(* numbers is exact, and so is it on thousandths.                          *)
(***************************************************************************)
\* the value of an optional vector field of a Keyframe: null stays None
validate_Keyframe(d) ==
    Keyframe(d.time[1], Get(d.location, <<>>), Get(d.rotation_degrees, <<>>),
             Get(d.scale, <<>>))

validate_Keys(keys) == [i \in 1..Len(keys) |-> validate_Keyframe(keys[i])]

validate_Animation(d) ==
    Animation(validate_Keys(Get(d.location_keys, <<>>)),
              validate_Keys(Get(d.rotation_keys, <<>>)),
              validate_Keys(Get(d.scale_keys, <<>>)))

\* Optional[Animation]: an absent key and null both give None
validate_OptAnimation(key) ==
    IF Get(key, <<>>) = <<>> THEN <<>> ELSE <<validate_Animation(key[1][1])>>

\* Color: absent components take the default 0.8, given ones are clamped
validate_Color(d) == Color(Get(d.r, 800), Get(d.g, 800), Get(d.b, 800))

validate_Transform(d) ==
    Transform(Get(d.location, DefaultLocation), Get(d.rotation_degrees, DefaultRotation),
              Get(d.scale, DefaultScale))

validate_ObjectSpec(d) ==
    [ObjectSpec(d.name[1], d.type[1],
                IF d.color = <<>> THEN Color(800, 800, 800) ELSE validate_Color(d.color[1]),
                Get(d.dimensions, <<1000, 1000, 1000>>),
                IF d.transform = <<>> THEN DefaultTransform
                                      ELSE validate_Transform(d.transform[1]))
        EXCEPT !.animation = validate_OptAnimation(d.animation)]

validate_CameraSpec(d) ==
    [name            |-> Get(d.name, CameraSpec.name),
     transform       |-> IF d.transform = <<>> THEN DefaultTransform
                                               ELSE validate_Transform(d.transform[1]),
     look_at         |-> Get(d.look_at, <<>>),
     animation       |-> validate_OptAnimation(d.animation),
     focal_length_mm |-> Get(d.focal_length_mm, CameraSpec.focal_length_mm)]

validate_RenderSettings(d) ==
    [duration_seconds |-> Get(d.duration_seconds, RenderSettings.duration_seconds),
     fps              |-> Get(d.fps, RenderSettings.fps),
     resolution_x     |-> Get(d.resolution_x, RenderSettings.resolution_x),
     resolution_y     |-> Get(d.resolution_y, RenderSettings.resolution_y),
     background_color |-> IF d.background_color = <<>>
                          THEN RenderSettings.background_color
                          ELSE validate_Color(d.background_color[1])]

validate_ScenePlan(d) ==
    [version     |-> Get(d.version, "1.0"),
     description |-> Get(d.description, <<>>),
     render      |-> IF d.render = <<>> THEN RenderSettings
                                        ELSE validate_RenderSettings(d.render[1]),
     camera      |-> IF d.camera = <<>> THEN CameraSpec
                                        ELSE validate_CameraSpec(d.camera[1]),
     objects     |-> LET objs == Get(d.objects, <<>>)
                     IN  [i \in 1..Len(objs) |-> validate_ObjectSpec(objs[i])]]

\* what makes validation raise: a Keyframe without time, an object without name
\* or type or with a type outside the Literal, a fractional int field
KeysAccepted(key) ==
    \A i \in 1..Len(Get(key, <<>>)) : key[1][i].time # <<>>

OptAnimationAccepted(key) ==
    \/ Get(key, <<>>) = <<>>
    \/ /\ KeysAccepted(key[1][1].location_keys)
       /\ KeysAccepted(key[1][1].rotation_keys)
       /\ KeysAccepted(key[1][1].scale_keys)

ObjectAccepted(d) ==
    /\ d.name # <<>>
    /\ d.type # <<>>
    /\ d.type[1] \in PrimitiveType
    /\ OptAnimationAccepted(d.animation)

IntAccepted(key) == Get(key, 0) % 1000 = 0

RenderAccepted(d) ==
    IntAccepted(d.fps) /\ IntAccepted(d.resolution_x) /\ IntAccepted(d.resolution_y)

Accepted(d) ==
    /\ d.render # <<>> => RenderAccepted(d.render[1])
    /\ d.camera # <<>> => OptAnimationAccepted(d.camera[1].animation)
    /\ \A i \in 1..Len(Get(d.objects, <<>>)) : ObjectAccepted(d.objects[1][i])

\* model_dump(mode="json"): every field is written, None as null
dump_Keyframe(k) ==
    [time |-> <<k.time>>, location |-> <<k.location>>,
     rotation_degrees |-> <<k.rotation_degrees>>, scale |-> <<k.scale>>]

dump_Keys(keys) == [i \in 1..Len(keys) |-> dump_Keyframe(keys[i])]

dump_Animation(a) ==
    [location_keys |-> <<dump_Keys(a.location_keys)>>,
     rotation_keys |-> <<dump_Keys(a.rotation_keys)>>,
     scale_keys    |-> <<dump_Keys(a.scale_keys)>>]

dump_OptAnimation(a) == IF a = <<>> THEN << <<>> >> ELSE << <<dump_Animation(a[1])>> >>

dump_Color(c) == [r |-> <<c.r>>, g |-> <<c.g>>, b |-> <<c.b>>]

\* mutant of dump_Transform: the scale is not written
dump_Transform_without_scale(t) ==
    [location |-> <<t.location>>, rotation_degrees |-> <<t.rotation_degrees>>,
     scale |-> <<>>]

dump_Transform(t) ==
    [location |-> <<t.location>>, rotation_degrees |-> <<t.rotation_degrees>>,
     scale |-> <<t.scale>>]

dump_ObjectSpec(o) ==
    [name |-> <<o.name>>, type |-> <<o.type>>, color |-> <<dump_Color(o.color)>>,
     dimensions |-> <<o.dimensions>>, transform |-> <<dump_Transform(o.transform)>>,
     animation |-> dump_OptAnimation(o.animation)]

dump_CameraSpec(c) ==
    [name |-> <<c.name>>, transform |-> <<dump_Transform(c.transform)>>,
     look_at |-> <<c.look_at>>, animation |-> dump_OptAnimation(c.animation),
     focal_length_mm |-> <<c.focal_length_mm>>]

dump_RenderSettings(r) ==
    [duration_seconds |-> <<r.duration_seconds>>, fps |-> <<r.fps>>,
     resolution_x |-> <<r.resolution_x>>, resolution_y |-> <<r.resolution_y>>,
     background_color |-> <<dump_Color(r.background_color)>>]

model_dump(p) ==
    [version |-> <<p.version>>, description |-> <<p.description>>,
     render |-> <<dump_RenderSettings(p.render)>>,
     camera |-> <<dump_CameraSpec(p.camera)>>,
     objects |-> <<[i \in 1..Len(p.objects) |-> dump_ObjectSpec(p.objects[i])]>>]

(***************************************************************************)
(* Documents given to the validation, and the document flow: a document is *)
(* validated into a plan, the plan is normalized and written (as           *)
(* iterative() writes each per-object plan, lines 229-235), the written    *)
(* document is validated again and the result normalized again.            *)
(***************************************************************************)
KeyDoc(t) ==
    [time |-> <<t>>, location |-> << <<<<0, 0, t>>>> >>, rotation_degrees |-> <<>>,
     scale |-> << <<>> >>]

AnimationDoc(t) ==
    [location_keys |-> << <<KeyDoc(0), KeyDoc(t)>> >>, rotation_keys |-> <<>>,
     scale_keys |-> << <<KeyDoc(t)>> >>]

ObjectDocs ==
    { [name |-> <<"Box">>, type |-> <<"cube">>,
       color |-> <<[r |-> <<1200>>, g |-> <<-100>>, b |-> <<500>>]>>,
       dimensions |-> << <<2000, 1000>> >>,
       transform |-> <<[location |-> << <<0, 0, 4000>> >>, rotation_degrees |-> <<>>,
                        scale |-> << <<2000, 2000, 2000>> >>]>>,
       animation |-> << <<AnimationDoc(2000)>> >>],
      [name |-> <<"Floor">>, type |-> <<"plane">>, color |-> <<>>,
       dimensions |-> <<>>, transform |-> <<>>, animation |-> <<>>],
      [name |-> <<"Pot">>, type |-> <<"teapot">>, color |-> <<>>,
       dimensions |-> <<>>, transform |-> <<>>, animation |-> << <<>> >>],
      [name |-> <<"Ring">>, type |-> <<"torus">>,
       color |-> <<[r |-> <<300>>, g |-> <<>>, b |-> <<1000>>]>>,
       dimensions |-> << <<900000, 0, -5, 7000>> >>,
       transform |-> <<[location |-> << <<500000, -500000>> >>,
                        rotation_degrees |-> << <<720000, 0, 90000>> >>,
                        scale |-> <<>>]>>,
       animation |-> << <<AnimationDoc(-1000)>> >>] }

RenderDocs ==
    { [duration_seconds |-> <<9000>>, fps |-> <<24000>>, resolution_x |-> <<>>,
       resolution_y |-> <<4000000>>,
       background_color |-> <<[r |-> <<-200>>, g |-> <<500>>, b |-> <<1700>>]>>],
      [duration_seconds |-> <<>>, fps |-> <<24500>>, resolution_x |-> <<>>,
       resolution_y |-> <<>>, background_color |-> <<>>] }

CameraDocs ==
    { [name |-> <<"Cam">>,
       transform |-> <<[location |-> << <<0, -200000, 3000>> >>,
                        rotation_degrees |-> <<>>, scale |-> <<>>]>>,
       look_at |-> << <<<<0, 0, 0>>>> >>,
       animation |-> << <<AnimationDoc(-1000)>> >>,
       focal_length_mm |-> <<50000>>] }

\* the top-level keys other than objects
DocHeaders ==
    { [version |-> <<>>, description |-> <<>>, render |-> <<>>, camera |-> <<>>],
      [version |-> <<"1.0">>, description |-> << <<>> >>, render |-> <<>>,
       camera |-> <<CHOOSE c \in CameraDocs : TRUE>>] }
    \cup { [version |-> <<"1.0">>, description |-> << <<"a scene">> >>,
            render |-> <<r>>, camera |-> <<c>>] : r \in RenderDocs, c \in CameraDocs }

Document(h, objs) ==
    [version |-> h.version, description |-> h.description, render |-> h.render,
     camera |-> h.camera, objects |-> objs]

\* A document is about to be validated into a ScenePlan.
InitDoc ==
    /\ pc = "document"
    /\ \E h \in DocHeaders, n \in 0..MaxObjs :
           \E c \in [1..n -> ObjectDocs] :
               \/ doc = Document(h, <<c>>)
               \/ n = 0 /\ doc = Document(h, <<>>)
    /\ plan = NoPlan
    /\ given = NoPlan
    /\ before = NoPlan
    /\ kb = <<>>
    /\ object_entry = [name |-> <<>>, color |-> <<>>]
    /\ rf = 5
    /\ max_parts = _max_parts_for(5)
    /\ IterIdle
    /\ GeomIdle
    /\ ConsumerIdle

\* ScenePlan.model_validate(doc): a ValidationError ends the flow
ValidateDocument ==
    /\ pc = "document"
    /\ IF Accepted(doc)
       THEN /\ plan' = validate_ScenePlan(doc)
            /\ given' = validate_ScenePlan(doc)
            /\ before' = validate_ScenePlan(doc)
            /\ pc' = "loaded"
       ELSE /\ pc' = "raised"
            /\ UNCHANGED <<plan, given, before>>
    /\ UNCHANGED <<kb, object_entry, rf, max_parts, doc>>
    /\ UNCHANGED iterVars
    /\ UNCHANGED geomVars
    /\ UNCHANGED consumerVars

\* json.dump(plan.model_dump(mode="json"), f) of a normalized plan
WriteDocument ==
    /\ pc = "normalized"
    /\ doc' = model_dump(plan)
    /\ pc' = "written"
    /\ UNCHANGED <<plan, given, before, kb, object_entry, rf, max_parts>>
    /\ UNCHANGED iterVars
    /\ UNCHANGED geomVars
    /\ UNCHANGED consumerVars

\* the written document is validated into a second ScenePlan
ReadBack ==
    /\ pc = "written"
    /\ IF Accepted(doc)
       THEN /\ before' = plan
            /\ plan' = validate_ScenePlan(doc)
            /\ pc' = "read_back"
       ELSE /\ pc' = "rejected"
            /\ UNCHANGED <<plan, before>>
    /\ UNCHANGED <<given, kb, object_entry, rf, max_parts, doc>>
    /\ UNCHANGED iterVars
    /\ UNCHANGED geomVars
    /\ UNCHANGED consumerVars

\* normalize_plan on the plan that was read back
NormalizeReadBack ==
    /\ pc = "read_back"
    /\ before' = plan
    /\ plan' = normalize_plan(plan)
    /\ pc' = "read_back_normalized"
    /\ UNCHANGED <<given, kb, object_entry, rf, max_parts, doc>>
    /\ UNCHANGED iterVars
    /\ UNCHANGED geomVars
    /\ UNCHANGED consumerVars

NextDoc ==
    \/ ValidateDocument
    \/ NormalizeLoaded
    \/ WriteDocument
    \/ ReadBack
    \/ NormalizeReadBack

SpecDoc == InitDoc /\ [][NextDoc]_vars

(***************************************************************************)
(* iterative(), lines 209-277, with the identity of the ObjectSpec         *)
(* instances.  pydantic keeps a model instance that is given for a field   *)
(* of its own type, so ScenePlan(objects=finalized_parts) holds the very   *)
(* instances of the per-object plans; normalize_plan assigns to the fields *)
(* of the instances it is given.  A plan is its object list here (a        *)
(* sequence of instances); a nested Transform or Color belongs to its      *)
(* ObjectSpec instance and is shared exactly when that one is.             *)
(***************************************************************************)
Range(seq) == {seq[i] : i \in 1..Len(seq)}

\* _build_object_plan up to the dicts given to ScenePlan(objects=...)
ObjectDicts(entry, result) ==
    IF rf <= 0
    THEN <<PlaceholderCube(entry, Get(preferred_color(entry), Gray))>>
    ELSE PartsOrFallback(CollectParts(result, entry, preferred_color(entry), max_parts),
                         entry)

\* the instances constructed from the dicts are put behind those that exist
Allocate(h, objs) == h \o objs

NewIds(h, objs) == [i \in 1..Len(objs) |-> Len(h) + i]

\* normalizer.py lines 48-64 on instances: the supported ones of ids are
\* normalized where they are, the others are left alone and not kept
NormalizeInstances(h, ids) ==
    [id \in 1..Len(h) |->
        IF id \in Range(ids) /\ h[id].type \in SUPPORTED THEN normalize_object(h[id])
                                                         ELSE h[id]]

KeptInstances(h, ids) ==
    LET supported(id) == h[id].type \in SUPPORTED
    IN  SelectSeq(ids, supported)

\* normalizer.py lines 67-75: a new DefaultCube instance when none is kept
HeapAfterNormalize(h, ids) ==
    IF KeptInstances(h, ids) = <<>>
    THEN Allocate(NormalizeInstances(h, ids), <<DefaultCube>>)
    ELSE NormalizeInstances(h, ids)

ObjectsAfterNormalize(h, ids) ==
    IF KeptInstances(h, ids) = <<>> THEN <<Len(h) + 1>> ELSE KeptInstances(h, ids)

\* the objects of plan.model_dump(mode="json") for a plan with the object list ids
DumpObjects(h, ids) == [i \in 1..Len(ids) |-> dump_ObjectSpec(h[ids[i]])]

\* ScenePlan(objects=finalized_parts), lines 270-273: the instances are kept
ShareInstances(h, ids) == [heap |-> h, objects |-> ids]

\* iterative() is about to work through the approved objects (never none,
\* lines 171-173) with the run's reality factor.
InitIter ==
    /\ pc = "iterating"
    /\ plan = NoPlan
    /\ given = NoPlan
    /\ before = NoPlan
    /\ kb = <<>>
    /\ object_entry = [name |-> <<>>, color |-> <<>>]
    /\ rf \in RealityFactors
    /\ max_parts = _max_parts_for(rf)
    /\ doc = NoDoc
    /\ IterIdle
    /\ GeomIdle
    /\ ConsumerIdle

\* One round of the loop over the approved objects, lines 209-267: the plan of
\* the object is built and normalized, its document is written, its objects
\* are appended to finalized_parts.  A failure of the preview is caught and
\* changes nothing; a ValidationError leaves iterative().
IterateObject ==
    /\ pc = "iterating"
    /\ Len(per_object) < MaxApproved
    /\ \E entry \in ObjectEntries, parts \in PartLists :
           LET result == KbResult(1, <<parts>>)
               dicts  == ObjectDicts(entry, result)
               given_ == [i \in 1..Len(dicts) |-> FromDict(dicts[i])]
               ids    == NewIds(heap, given_)
               built  == Allocate(heap, given_)
               objs   == ObjectsAfterNormalize(built, ids)
               after  == HeapAfterNormalize(built, ids)
           IN  /\ object_entry' = entry
               /\ kb' = IF rf <= 0 THEN <<>> ELSE result
               /\ IF Validates(dicts)
                  THEN /\ heap' = after
                       /\ per_object' =
                              Append(per_object,
                                     [objects |-> objs, written |-> DumpObjects(after, objs)])
                       /\ finalized_parts' = finalized_parts \o objs
                       /\ pc' = "iterating"
                  ELSE /\ pc' = "raised"
                       /\ UNCHANGED <<heap, per_object, finalized_parts>>
    /\ UNCHANGED <<plan, given, before, rf, max_parts, doc, combined>>
    /\ UNCHANGED geomVars
    /\ UNCHANGED consumerVars

\* Lines 270-277 after the last round: the combined plan is constructed from
\* finalized_parts, normalized and written.
Combine ==
    /\ pc = "iterating"
    /\ Len(per_object) >= 1
    /\ LET made  == ShareInstances(heap, finalized_parts)
           objs  == ObjectsAfterNormalize(made.heap, made.objects)
           after == HeapAfterNormalize(made.heap, made.objects)
       IN  /\ heap' = after
           /\ combined' = <<[objects |-> objs, written |-> DumpObjects(after, objs)]>>
    /\ pc' = "combined"
    /\ UNCHANGED <<plan, given, before, kb, object_entry, rf, max_parts, doc,
                   per_object, finalized_parts>>
    /\ UNCHANGED geomVars
    /\ UNCHANGED consumerVars

NextIter == IterateObject \/ Combine

SpecIter == InitIter /\ [][NextIter]_vars

(***************************************************************************)
(* The primitive builders: make_mesh (3dviewer.py), build_mobject          *)
(* (json2manim.py) and build_primitive (adapter/blender_script.py).        *)
(*                                                                         *)
(* What a builder makes is a record: kind ("mesh", "none" for the return   *)
(* of None, "error" for an exception leaving the builder), the extents of  *)
(* the geometry along its local axes, the pose given to it, and for a      *)
(* torus its radii and, where the builder generates them itself, its       *)
(* vertex count and faces.  Dimensions and locations are in thousandths;   *)
(* extents and radii, which halve and double them, are in millionths.      *)
(* Angles are multiples of 90 degrees, where sine and cosine are -1, 0, 1, *)
(* so a pose is a 4x4 matrix of integers: rotation entries are units, the  *)
(* translation column is in thousandths.                                   *)
(***************************************************************************)
Max(a, b) == IF a > b THEN a ELSE b

\* cos and sin of np.deg2rad(a) for a multiple of 90 degrees
cos(a) == <<1, 0, -1, 0>>[((a \div 90000) % 4) + 1]
sin(a) == <<0, 1, 0, -1>>[((a \div 90000) % 4) + 1]

Identity == <<<<1, 0, 0, 0>>, <<0, 1, 0, 0>>, <<0, 0, 1, 0>>, <<0, 0, 0, 1>>>>

\* A @ B
MatMul(A, B) ==
    [i \in 1..4 |-> [j \in 1..4 |->
        A[i][1] * B[1][j] + A[i][2] * B[2][j] + A[i][3] * B[3][j] + A[i][4] * B[4][j]]]

translation_matrix(loc) ==
    <<<<1, 0, 0, loc[1]>>, <<0, 1, 0, loc[2]>>, <<0, 0, 1, loc[3]>>, <<0, 0, 0, 1>>>>

\* the rotations by angle a about the X, Y and Z axis
RotateX(a) ==
    <<<<1, 0, 0, 0>>, <<0, cos(a), -sin(a), 0>>, <<0, sin(a), cos(a), 0>>, <<0, 0, 0, 1>>>>
RotateY(a) ==
    <<<<cos(a), 0, sin(a), 0>>, <<0, 1, 0, 0>>, <<-sin(a), 0, cos(a), 0>>, <<0, 0, 0, 1>>>>
RotateZ(a) ==
    <<<<cos(a), -sin(a), 0, 0>>, <<sin(a), cos(a), 0, 0>>, <<0, 0, 1, 0>>, <<0, 0, 0, 1>>>>

\* trimesh.transformations.euler_matrix(ai, aj, ak, "sxyz"): static axes, first
\* axis X, even parity, no repetition; the entries as the library computes them
euler_matrix(ai, aj, ak) ==
    LET si == sin(ai)  sj == sin(aj)  sk == sin(ak)
        ci == cos(ai)  cj == cos(aj)  ck == cos(ak)
        cc == ci * ck  cs == ci * sk  sc == si * ck  ss == si * sk
    IN  <<<<cj * ck, sj * sc - cs, sj * cc + ss, 0>>,
          <<cj * sk, sj * ss + cc, sj * cs - sc, 0>>,
          <<-sj,     cj * si,      cj * ci,      0>>,
          <<0, 0, 0, 1>>>>

\* what a builder returns
Built(extents, pose, torus) ==
    [kind |-> "mesh", extents |-> extents, pose |-> pose, torus |-> torus]
None == [kind |-> "none", extents |-> <<>>, pose |-> <<>>, torus |-> <<>>]
Raised == [kind |-> "error", extents |-> <<>>, pose |-> <<>>, torus |-> <<>>]

\* ---- 3dviewer.py ----
\* _parametric_torus(R, r): seg_u = 64 and seg_v = 32 by default
seg_u == Max(8, 64)
seg_v == Max(6, 32)

\* mutant of vid: the indices are not wrapped
vid_no_wrap(i, j) == i * seg_v + j

\* lines 112-113
vid(i, j) == (i % seg_u) * seg_v + (j % seg_v)

\* lines 114-121: for i, for j: the faces [a, b, c] and [a, c, d] of quad (i, j);
\* face number n (from 1) belongs to quad ((n-1) div 2), i outer, j inner
parametric_faces ==
    [n \in 1..(2 * seg_u * seg_v) |->
        LET q == (n - 1) \div 2
            i == q \div seg_v
            j == q % seg_v
            a == vid(i, j)
            b == vid(i + 1, j)
            c == vid(i + 1, j + 1)
            d == vid(i, j + 1)
        IN  IF (n - 1) % 2 = 0 THEN <<a, b, c>> ELSE <<a, c, d>>]

\* lines 100-111: one vertex per (i, j)
parametric_vertices == seg_u * seg_v

\* lines 93-94: the radii of the torus
torus_R(dims) == (dims[1] + (IF Len(dims) > 1 THEN dims[2] ELSE dims[1])) * 250

torus_r(dims) ==
    (IF Len(dims) > 2 THEN dims[3] * 1000
     ELSE Max(100000, 200 * (IF dims[1] = 0 THEN 1000 ELSE dims[1]))) \div 2

\* lines 124-130: trimesh.creation.torus(major_radius, minor_radius,
\* major_sections, minor_sections, transform, **kwargs) hands sections=64 on
\* to revolve() next to its own sections argument, which raises TypeError; a
\* trimesh without creation.torus has no such attribute.  Both ways the mesh
\* is the one of _parametric_torus.
make_torus(dims) ==
    [R |-> torus_R(dims), r |-> torus_r(dims),
     vertices |-> <<parametric_vertices>>, faces |-> <<parametric_faces>>]

TorusExtents(t) == <<2 * (t.R + t.r), 2 * (t.R + t.r), 2 * t.r>>

\* lines 136-142: the pose of the mesh; the scale of the transform is not read
make_mesh_pose(o) ==
    MatMul(translation_matrix(o.transform.location),
           euler_matrix(o.transform.rotation_degrees[1], o.transform.rotation_degrees[2],
                        o.transform.rotation_degrees[3]))

\* the number of dimensions the branch of a type reads; fewer is an IndexError
make_mesh_reads(typ, dims) ==
    CASE typ = "cube" -> 3
      [] typ = "sphere" -> IF Len(dims) = 1 THEN 1 ELSE 3
      [] typ \in {"cylinder", "cone", "plane"} -> 2
      [] OTHER -> 1

\* lines 71-130: the geometry per type
make_mesh_extents(typ, dims) ==
    CASE typ = "cube" -> <<1000 * dims[1], 1000 * dims[2], 1000 * dims[3]>>
      [] typ = "sphere" ->
            IF Len(dims) = 1
            THEN <<2000 * dims[1], 2000 * dims[1], 2000 * dims[1]>>
            ELSE <<2000 * dims[1], 2000 * dims[2], 2000 * dims[3]>>
      [] typ \in {"cylinder", "cone"} ->
            <<2000 * dims[1], 2000 * dims[1],
              1000 * (IF Len(dims) > 2 THEN dims[3] ELSE dims[2])>>
      [] typ = "plane" ->
            <<1000 * dims[1], 1000 * dims[2],
              Max(1000 * (IF Len(dims) > 2 THEN dims[3] ELSE 10), 1000)>>
      [] OTHER -> TorusExtents(make_torus(dims))

make_mesh(o) ==
    IF o.type \notin {"cube", "sphere", "cylinder", "cone", "plane", "torus"}
    THEN None
    ELSE IF Len(o.dimensions) < make_mesh_reads(o.type, o.dimensions)
    THEN Raised
    ELSE Built(make_mesh_extents(o.type, o.dimensions), make_mesh_pose(o),
               IF o.type = "torus" THEN <<make_torus(o.dimensions)>> ELSE <<>>)

\* ---- json2manim.py ----
\* m.stretch(d / 2.0, axis) on a primitive whose extent along the axis is 2
stretched(d) == 2 * (d * 500)

\* lines 77-112: the geometry per type; a plane is a Rectangle in XY
build_mobject_extents(typ, dims) ==
    IF typ = "plane"
    THEN <<stretched(dims[1]), stretched(IF Len(dims) > 1 THEN dims[2] ELSE dims[1]), 0>>
    ELSE <<stretched(dims[1]), stretched(dims[2]), stretched(dims[3])>>

\* mutant of build_mobject_pose: the three rotations are made in the order Z, Y, X
build_mobject_pose_zyx(o) ==
    LET r == o.transform.rotation_degrees
    IN  MatMul(translation_matrix(o.transform.location),
               MatMul(RotateX(r[1]), MatMul(RotateY(r[2]), MatMul(RotateZ(r[3]), Identity))))

\* lines 114-119: m.rotate(rx, RIGHT).rotate(ry, UP).rotate(rz, OUT).shift(pos), each
\* step acting on the points as they are after the step before; the geometry
\* is centred, so that a rotation about its centre is one about the origin
build_mobject_pose(o) ==
    LET r == o.transform.rotation_degrees
    IN  MatMul(translation_matrix(o.transform.location),
               MatMul(RotateZ(r[3]), MatMul(RotateY(r[2]), MatMul(RotateX(r[1]), Identity))))

build_mobject(o) ==
    IF o.type \notin {"cube", "sphere", "cylinder", "cone", "plane"}
    THEN None
    ELSE IF Len(o.dimensions) < (IF o.type = "plane" THEN 1 ELSE 3)
    THEN Raised
    ELSE Built(build_mobject_extents(o.type, o.dimensions), build_mobject_pose(o), <<>>)

\* ---- adapter/blender_script.py ----
\* mutant of object_scale: the scale of the transform is multiplied in
object_scale_times_sca(o) ==
    [i \in 1..3 |-> (Max(1000, o.dimensions[i] * 500) * o.transform.scale[i]) \div 1000]

\* lines 107-108: obj.scale = [max(0.001, d / 2.0) for d in dims]; sca (line 75)
\* is read from the transform and never used
object_scale(o) == [i \in 1..3 |-> Max(1000, o.dimensions[i] * 500)]

\* lines 94-99: the torus from its radii, without vertices of the builder's own
primitive_torus(dims) ==
    [R |-> Max(1000, (dims[1] + dims[2]) * 500) \div 2,
     r |-> Max(1000, dims[3] * 1000) \div 2,
     vertices |-> <<>>, faces |-> <<>>]

\* lines 84-92, 107-108: a primitive of extent 2 (a plane: 2 x 2 x 0), scaled
build_primitive_extents(o) ==
    IF o.type = "torus"
    THEN TorusExtents(primitive_torus(o.dimensions))
    ELSE <<2 * object_scale(o)[1], 2 * object_scale(o)[2],
           IF o.type = "plane" THEN 0 ELSE 2 * object_scale(o)[3]>>

\* location=loc and obj.rotation_euler = radians_deg(rot_deg), rotation mode
\* XYZ: the rotation about X is applied first, the one about Z last
build_primitive_pose(o) ==
    LET r == o.transform.rotation_degrees
    IN  MatMul(translation_matrix(o.transform.location),
               MatMul(RotateZ(r[3]), MatMul(RotateY(r[2]), RotateX(r[1]))))

build_primitive(o) ==
    IF o.type \notin {"cube", "sphere", "cylinder", "cone", "plane", "torus"}
    THEN None
    ELSE IF Len(o.dimensions) < 3 \/ (o.type # "torus" /\ Len(o.dimensions) > 3)
    THEN Raised
    ELSE Built(build_primitive_extents(o), build_primitive_pose(o),
               IF o.type = "torus" THEN <<primitive_torus(o.dimensions)>> ELSE <<>>)

\* ---- the objects given to the builders, and the builders at work ----
GeomTypes == PrimitiveType \cup {"teapot"}

DimSamples ==
    {<<2000, 2000, 600>>, <<1000, 3000, 50>>, <<0, 0, 0>>, <<2000, 1000>>, <<0, 2000>>,
     <<1500>>}

LocationSamples == {<<0, 0, 0>>, <<1000, -2000, 500>>}

RotationSamples ==
    {<<0, 0, 0>>, <<90000, 0, 0>>, <<90000, 90000, 0>>, <<0, 90000, 90000>>,
     <<90000, 0, 90000>>, <<-90000, 180000, 270000>>}

ScaleSamples == {DefaultScale, <<2000, 500, 3000>>}

\* A document has been loaded and one of its objects is given to the builders.
InitGeom ==
    /\ pc = "scene"
    /\ plan = NoPlan
    /\ given = NoPlan
    /\ before = NoPlan
    /\ kb = <<>>
    /\ object_entry = [name |-> <<>>, color |-> <<>>]
    /\ rf = 5
    /\ max_parts = _max_parts_for(5)
    /\ doc = NoDoc
    /\ IterIdle
    /\ \E t \in GeomTypes, d \in DimSamples, l \in LocationSamples,
          r \in RotationSamples, sc \in ScaleSamples :
           obj = [type |-> t, dimensions |-> d, transform |-> Transform(l, r, sc)]
    /\ mesh = <<>>
    /\ mobject = <<>>
    /\ bobject = <<>>
    /\ ConsumerIdle

notGeom == <<pc, plan, given, before, kb, object_entry, rf, max_parts, doc>>

\* 3dviewer.py load_scene: m = make_mesh(o)
MakeMesh ==
    /\ pc = "scene"
    /\ mesh = <<>>
    /\ mesh' = <<make_mesh(obj)>>
    /\ UNCHANGED <<obj, mobject, bobject>>
    /\ UNCHANGED notGeom
    /\ UNCHANGED iterVars
    /\ UNCHANGED consumerVars

\* json2manim.py SceneFromJSON.construct: m = build_mobject(o)
BuildMobject ==
    /\ pc = "scene"
    /\ mobject = <<>>
    /\ mobject' = <<build_mobject(obj)>>
    /\ UNCHANGED <<obj, mesh, bobject>>
    /\ UNCHANGED notGeom
    /\ UNCHANGED iterVars
    /\ UNCHANGED consumerVars

\* blender_script.py: build_primitive(obj_spec, fps)
BuildPrimitive ==
    /\ pc = "scene"
    /\ bobject = <<>>
    /\ bobject' = <<build_primitive(obj)>>
    /\ UNCHANGED <<obj, mesh, mobject>>
    /\ UNCHANGED notGeom
    /\ UNCHANGED iterVars
    /\ UNCHANGED consumerVars

NextGeom == MakeMesh \/ BuildMobject \/ BuildPrimitive

SpecGeom == InitGeom /\ [][NextGeom]_vars

(***************************************************************************)
(* iterative(), lines 190-203: the reality factor and the budget of parts  *)
(* are determined once for the run, from the environment.                  *)
(***************************************************************************)
\* the text of an environment variable: a number (in thousandths) or not one
Number(v) == [number |-> TRUE, value |-> v]
Junk == [number |-> FALSE, value |-> 0]

\* rf = int(float(rf_env)) if rf_env.strip() else 5; 5 on any exception
reality_factor_of(e) ==
    IF e.REALITY_FACTOR = <<>> THEN 5
    ELSE IF ~e.REALITY_FACTOR[1].number THEN 5
    ELSE int(e.REALITY_FACTOR[1].value) \div 1000

\* cap = max(1, int(float(cap_env))); max_parts = min(max_parts, cap);
\* nothing on any exception
capped(budget, e) ==
    IF e.KITBASH_MAX_PARTS = <<>> THEN budget
    ELSE IF ~e.KITBASH_MAX_PARTS[1].number THEN budget
    ELSE LET cap == Max(1, int(e.KITBASH_MAX_PARTS[1].value) \div 1000)
         IN  IF budget < cap THEN budget ELSE cap

RealityFactorTexts ==
    {<<>>, <<Junk>>, <<Number(-3000)>>, <<Number(0)>>, <<Number(1000)>>,
     <<Number(2700)>>, <<Number(100000)>>, <<Number(250000)>>}

MaxPartsTexts == {<<>>, <<Junk>>, <<Number(0)>>, <<Number(2000)>>, <<Number(500000)>>}

InitBudget ==
    /\ pc = "start"
    /\ plan = NoPlan
    /\ given = NoPlan
    /\ before = NoPlan
    /\ kb = <<>>
    /\ object_entry \in ObjectEntries
    /\ rf = 5
    /\ max_parts = _max_parts_for(5)
    /\ doc = NoDoc
    /\ IterIdle
    /\ GeomIdle
    /\ SceneIdle
    /\ LoadIdle
    /\ SchemaIdle
    /\ \E r \in RealityFactorTexts, c \in MaxPartsTexts :
           env = [NoEnv EXCEPT !.REALITY_FACTOR = r, !.KITBASH_MAX_PARTS = c]
    /\ idx = 0
    /\ sketches = <<>>
    /\ combined_json = "absent"
    /\ processes = <<>>
    /\ rc_view = <<>>

\* lines 190-203
DetermineBudget ==
    /\ pc = "start"
    /\ rf' = reality_factor_of(env)
    /\ max_parts' = capped(_max_parts_for(reality_factor_of(env)), env)
    /\ pc' = "approved"
    /\ UNCHANGED <<plan, given, before, kb, object_entry, doc>>
    /\ UNCHANGED iterVars
    /\ UNCHANGED geomVars
    /\ UNCHANGED consumerVars

\* _build_object_plan(obj, rf=rf, max_parts=max_parts), line 214, where the
\* synthesis returns one entry
BuildObjectPlanOfOne ==
    /\ pc = "approved"
    /\ LET preferred == preferred_color(object_entry)
       IN  IF rf <= 0
           THEN Finish("placeholder for " \o Get(object_entry.name, "Object"),
                       <<PlaceholderCube(object_entry, Get(preferred, Gray))>>, <<>>)
           ELSE \E parts \in PartLists :
                    Finish("kitbash for " \o Get(object_entry.name, "Object"),
                           PartsOrFallback(
                               CollectParts(KbResult(1, <<parts>>), object_entry,
                                            preferred, max_parts),
                               object_entry),
                           KbResult(1, <<parts>>))

NextBudget == DetermineBudget \/ BuildObjectPlanOfOne

SpecBudget == InitBudget /\ [][NextBudget]_vars

(***************************************************************************)
(* Camera framing: load_scene (3dviewer.py), SceneFromJSON.construct       *)
(* (json2manim.py) and build_scene (adapter/blender_script.py).            *)
(*                                                                         *)
(* Positions and distances are in thousandths.  A square root is rounded   *)
(* down to the thousandth, a mean and a product with a decimal factor are  *)
(* rounded down likewise, where the code has the nearest float.            *)
(***************************************************************************)
RECURSIVE sqrt_between(_, _, _)
sqrt_between(lo, hi, x) ==
    IF lo >= hi THEN lo
    ELSE LET mid == (lo + hi + 1) \div 2
         IN  IF mid * mid <= x THEN sqrt_between(mid, hi, x)
                               ELSE sqrt_between(lo, mid - 1, x)

\* math.sqrt / np.linalg.norm on a squared length, rounded down
sqrt(x) == sqrt_between(0, 46340, x)

SquaredLength(v) == v[1] * v[1] + v[2] * v[2] + v[3] * v[3]

\* trimesh bounds of a built mesh: its geometry lies around the local origin
\* (box, icosphere and torus do), turned by quarter turns and moved
bounds(b) ==
    LET half(i) ==
            (abs(b.pose[i][1]) * b.extents[1] + abs(b.pose[i][2]) * b.extents[2]
             + abs(b.pose[i][3]) * b.extents[3]) \div 2000
    IN  [min |-> [i \in 1..3 |-> b.pose[i][4] - half(i)],
         max |-> [i \in 1..3 |-> b.pose[i][4] + half(i)]]

\* 3dviewer.py lines 221-226: the meshes of the objects that make_mesh built
\* (an exception of make_mesh leaves load_scene: no mesh list then)
scene_meshes(objects) ==
    SelectSeq([i \in 1..Len(objects) |-> make_mesh(objects[i])],
              LAMBDA b : b.kind = "mesh")

RECURSIVE MinOver(_, _)
MinOver(boxes, i) ==
    IF Len(boxes) = 1 THEN boxes[1].min[i]
    ELSE LET rest == MinOver(Tail(boxes), i)
         IN  IF boxes[1].min[i] < rest THEN boxes[1].min[i] ELSE rest

RECURSIVE MaxOver(_, _)
MaxOver(boxes, i) ==
    IF Len(boxes) = 1 THEN boxes[1].max[i]
    ELSE Max(boxes[1].max[i], MaxOver(Tail(boxes), i))

\* line 238: eye = center + np.array([1.2, 1.2, 0.8]) * dist
eye_of(center, dist) ==
    [i \in 1..3 |-> center[i] + (<<12, 12, 8>>[i] * dist) \div 10]

\* mutant of frame_distance: no lower limit
frame_distance_unlimited(size) == (18 * size) \div 10

\* line 234: dist = max(1.0, 1.8 * size)
frame_distance(size) == Max(1000, (18 * size) \div 10)

\* lines 228-238
auto_frame(meshes) ==
    IF meshes # <<>>
    THEN LET boxes  == [i \in 1..Len(meshes) |-> bounds(meshes[i])]
             mins   == [i \in 1..3 |-> MinOver(boxes, i)]
             maxs   == [i \in 1..3 |-> MaxOver(boxes, i)]
             center == [i \in 1..3 |-> (mins[i] + maxs[i]) \div 2]
             size   == sqrt(SquaredLength([i \in 1..3 |-> maxs[i] - mins[i]]))
         IN  [center |-> center, distance |-> frame_distance(size),
              eye |-> eye_of(center, frame_distance(size))]
    ELSE [center |-> <<0, 0, 0>>, distance |-> 5000, eye |-> eye_of(<<0, 0, 0>>, 5000)]

RECURSIVE SumOf(_)
SumOf(seq) == IF seq = <<>> THEN 0 ELSE Head(seq) + SumOf(Tail(seq))

RECURSIVE MaxOf(_)
MaxOf(seq) == IF Len(seq) = 1 THEN seq[1] ELSE Max(seq[1], MaxOf(Tail(seq)))

\* the mean of the positions, per axis
MeanPosition(positions) ==
    [i \in 1..3 |->
        SumOf([k \in 1..Len(positions) |-> positions[k][i]]) \div Len(positions)]

Distance(p, q) == sqrt(SquaredLength([i \in 1..3 |-> p[i] - q[i]]))

\* json2manim.py lines 137-146, 157-169: every object counts, built or not;
\* r = max(dist + sum(|dims|)/2), at least 1.5; d_cam = max(6.0, 2.5 * r)
construct_frame(objects) ==
    IF objects = <<>> THEN <<>>
    ELSE LET positions == [k \in 1..Len(objects) |-> objects[k].transform.location]
             center    == MeanPosition(positions)
             reach(k)  == Distance(positions[k], center)
                          + SumOf([i \in 1..Len(objects[k].dimensions) |->
                                       abs(objects[k].dimensions[i])]) \div 2
             r         == Max(MaxOf([k \in 1..Len(objects) |-> reach(k)]), 1500)
         IN  <<[center |-> center, distance |-> Max(6000, (25 * r) \div 10)]>>

\* blender_script.py lines 107-108: the scale of a built object (a torus keeps 1)
built_scale(o) ==
    IF o.type = "torus" THEN <<1000, 1000, 1000>>
    ELSE [i \in 1..3 |-> object_scale(o)[i] \div 1000]

\* blender_script.py lines 355-378: only without look_at and with a built
\* object; r = max(dist + sum(|scale|)), at least 2.0; d = max(6.0, 2.5 * r)
build_scene_frame(objects, look) ==
    LET built == SelectSeq(objects, LAMBDA o : build_primitive(o).kind = "mesh")
    IN  IF look # <<>> \/ built = <<>> THEN <<>>
        ELSE LET positions == [k \in 1..Len(built) |-> built[k].transform.location]
                 center    == MeanPosition(positions)
                 reach(k)  == Distance(positions[k], center)
                              + SumOf([i \in 1..3 |-> abs(built_scale(built[k])[i])])
                 r         == Max(MaxOf([k \in 1..Len(built) |-> reach(k)]), 2000)
             IN  <<[center |-> center, distance |-> Max(6000, (25 * r) \div 10)]>>

\* ---- the documents the consumers load ----
SceneObject(t, d, l, r) ==
    [type |-> t, dimensions |-> d, transform |-> Transform(l, r, DefaultScale)]

SceneSamples ==
    {SceneObject("cube", <<1000, 1000, 1000>>, <<0, 0, 0>>, <<0, 0, 0>>),
     SceneObject("cube", <<200, 100, 50>>, <<0, 0, 0>>, <<0, 0, 0>>),
     SceneObject("cube", <<2000, 400, 600>>, <<3000, 0, 0>>, <<90000, 0, 0>>),
     SceneObject("cube", <<1000, 1000, 1000>>, <<0, -4000, 2000>>, <<0, 0, 90000>>),
     SceneObject("sphere", <<1000, 1000, 1000>>, <<3000, 0, 0>>, <<0, 0, 0>>),
     SceneObject("plane", <<2000, 400, 600>>, <<0, 0, 0>>, <<0, 0, 0>>),
     SceneObject("torus", <<2000, 2000, 400>>, <<0, 0, 0>>, <<0, 0, 0>>),
     SceneObject("torus", <<2000, 2000, 400>>, <<0, -4000, 2000>>, <<90000, 0, 0>>),
     SceneObject("teapot", <<1000, 1000, 1000>>, <<3000, 0, 0>>, <<0, 0, 0>>)}

LookAts == {<<>>, <<<<0, 0, 0>>>>}

\* A consumer is given a document: objects with three dimensions each (as
\* documents of normalized plans have) and the look_at of the camera.
InitScene ==
    /\ pc = "consumers"
    /\ FlowIdle
    /\ LoadIdle
    /\ RunIdle
    /\ SchemaIdle
    /\ \E n \in 0..MaxScene, look \in LookAts :
           \E objects \in [1..n -> SceneSamples] :
               scene = [objects |-> objects, look_at |-> look]
    /\ frames = NoFrames

notConsumer_but_pc ==
    <<plan, given, before, kb, object_entry, rf, max_parts, doc,
      heap, per_object, finalized_parts, combined, obj, mesh, mobject, bobject>>

notConsumer ==
    <<pc, plan, given, before, kb, object_entry, rf, max_parts, doc,
      heap, per_object, finalized_parts, combined, obj, mesh, mobject, bobject>>

\* 3dviewer.py load_scene
LoadScene ==
    /\ pc = "consumers"
    /\ frames.viewer = <<>>
    /\ frames' = [frames EXCEPT !.viewer = <<auto_frame(scene_meshes(scene.objects))>>]
    /\ UNCHANGED scene
    /\ UNCHANGED loadVars
    /\ UNCHANGED runVars
    /\ UNCHANGED schemaVars
    /\ UNCHANGED notConsumer

\* json2manim.py SceneFromJSON.construct
Construct ==
    /\ pc = "consumers"
    /\ frames.viewer # <<>>
    /\ frames.manim = <<>>
    /\ frames' = [frames EXCEPT !.manim = <<construct_frame(scene.objects)>>]
    /\ UNCHANGED scene
    /\ UNCHANGED loadVars
    /\ UNCHANGED runVars
    /\ UNCHANGED schemaVars
    /\ UNCHANGED notConsumer

\* blender_script.py build_scene
BuildScene ==
    /\ pc = "consumers"
    /\ frames.manim # <<>>
    /\ frames.blender = <<>>
    /\ frames' = [frames EXCEPT
                     !.blender = <<build_scene_frame(scene.objects, scene.look_at)>>]
    /\ UNCHANGED scene
    /\ UNCHANGED loadVars
    /\ UNCHANGED runVars
    /\ UNCHANGED schemaVars
    /\ UNCHANGED notConsumer

NextScene == LoadScene \/ Construct \/ BuildScene

SpecScene == InitScene /\ [][NextScene]_vars

(***************************************************************************)
(* _load_json_lenient (3dviewer.py).                                       *)
(*                                                                         *)
(* The text of the file is a sequence of tokens:                           *)
(*   "a"          a JSON value without comment characters                  *)
(*   "str_block"  a string value that contains a whole  /* ... */          *)
(*   "str"        that string value without the  /* ... */                 *)
(*   "str_line"   a string value that contains  //  after a blank          *)
(*   "nl"         a line break                                             *)
(*   "bo", "bc"   the opening  /*  and the closing  */  of a block comment *)
(*   "lc"         //  at the start of a line or after a blank              *)
(*   "x"          anything else that is not JSON                           *)
(* The values of the text are the elements of one JSON array, whose        *)
(* brackets and commas are left out.                                       *)
(***************************************************************************)
JsonValues == {"a", "str", "str_block", "str_line"}

Tokens == {"a", "str_block", "str_line", "nl", "bo", "bc", "lc", "x"}

\* json.JSONDecodeError carries the document and the position of the error
JSONDecodeError(txt, pos) == [ok |-> FALSE, value |-> <<>>, doc |-> txt, pos |-> pos]

Parsed(value) == [ok |-> TRUE, value |-> value, doc |-> <<>>, pos |-> 0]

FirstIndex(txt, S) ==
    IF \E i \in 1..Len(txt) : txt[i] \in S
    THEN CHOOSE i \in 1..Len(txt) : txt[i] \in S /\ \A j \in 1..(i - 1) : txt[j] \notin S
    ELSE 0

\* json.loads(txt): the values, or the error at the first thing that is not JSON
\* (at the end of a text without a value)
loads(txt) ==
    LET bad == FirstIndex(txt, {"bo", "bc", "lc", "x"})
        values == SelectSeq(txt, LAMBDA t : t \in JsonValues)
    IN  IF bad # 0 THEN JSONDecodeError(txt, bad)
        ELSE IF values = <<>> THEN JSONDecodeError(txt, Len(txt) + 1)
        ELSE Parsed(values)

\* line 155: re.sub(r"/\*.*?\*/", "", txt, flags=re.S): from each /* to the
\* first */ after it, across lines and whether or not it is inside a string
RECURSIVE strip_block(_)
strip_block(txt) ==
    IF txt = <<>> THEN <<>>
    ELSE IF Head(txt) = "str_block" THEN <<"str">> \o strip_block(Tail(txt))
    ELSE IF Head(txt) = "bo"
    THEN LET close == FirstIndex(Tail(txt), {"bc", "str_block"})
         IN  IF close = 0 THEN txt
             ELSE IF Tail(txt)[close] = "bc"
             THEN strip_block(SubSeq(Tail(txt), close + 1, Len(txt) - 1))
             ELSE <<"x">> \o strip_block(SubSeq(Tail(txt), close + 1, Len(txt) - 1))
    ELSE <<Head(txt)>> \o strip_block(Tail(txt))

\* line 156: re.sub(r"(^|\s)//.*?$", "", no_block, flags=re.M): from each //
\* after a blank to the end of its line, whether or not it is inside a string
RECURSIVE strip_line(_)
strip_line(txt) ==
    IF txt = <<>> THEN <<>>
    ELSE IF Head(txt) \in {"lc", "str_line"}
    THEN LET nl   == FirstIndex(txt, {"nl"})
             left == IF Head(txt) = "str_line" THEN <<"x">> ELSE <<>>
         IN  IF nl = 0 THEN left
             ELSE left \o strip_line(SubSeq(txt, nl, Len(txt)))
    ELSE <<Head(txt)>> \o strip_line(Tail(txt))

\* mutant of _load_json_lenient: the error of the retry is raised
_load_json_lenient_retry_error(txt) ==
    IF loads(txt).ok THEN loads(txt)
    ELSE loads(strip_line(strip_block(txt)))

\* lines 149-160
_load_json_lenient(txt) ==
    IF loads(txt).ok THEN loads(txt)
    ELSE LET no_block == strip_block(txt)
             no_line  == strip_line(no_block)
         IN  IF loads(no_line).ok THEN loads(no_line)
             ELSE loads(txt)

InitLoad ==
    /\ pc = "load"
    /\ FlowIdle
    /\ SceneIdle
    /\ RunIdle
    /\ SchemaIdle
    /\ \E n \in 0..MaxText : text \in [1..n -> Tokens]
    /\ loaded = <<>>

LoadJsonLenient ==
    /\ pc = "load"
    /\ loaded = <<>>
    /\ loaded' = <<_load_json_lenient(text)>>
    /\ pc' = "loaded"
    /\ UNCHANGED text
    /\ UNCHANGED sceneVars
    /\ UNCHANGED runVars
    /\ UNCHANGED schemaVars
    /\ UNCHANGED notConsumer_but_pc

NextLoad == LoadJsonLenient

SpecLoad == InitLoad /\ [][NextLoad]_vars

(***************************************************************************)
(* harden_schema (util/strict_schema.py).                                  *)
(*                                                                         *)
(* A schema is a dict, Dict(f) with f from keywords to values, or a value  *)
(* that is not a dict, NotDict (the schema true, for one).  The value of   *)
(* "properties", "definitions" and "$defs" is a dict of schemas, kept as   *)
(* the sequence of its items in insertion order.                           *)
(***************************************************************************)
Dict(f) == [kind |-> "dict", at |-> f]

NotDict == [kind |-> "other", at |-> <<>>]

Item(name, sub) == [name |-> name, schema |-> sub]

\* key in schema
Has(d, key) == key \in DOMAIN d

\* schema[key] = v
Put(d, key, v) == [k \in DOMAIN d \cup {key} |-> IF k = key THEN v ELSE d[k]]

\* schema.setdefault(key, v)
setdefault(d, key, v) == IF Has(d, key) THEN d ELSE Put(d, key, v)

\* line 21: schema.get("type") == "object" or "properties" in schema or "required" in schema
is_object_schema(d) ==
    \/ Has(d, "type") /\ d["type"] = "object"
    \/ Has(d, "properties")
    \/ Has(d, "required")

\* list(schema.get("properties", {}).keys())
prop_keys(d) == [i \in 1..Len(d["properties"]) |-> d["properties"][i].name]

\* lines 21-26
harden_object(d) ==
    IF is_object_schema(d)
    THEN LET typed == setdefault(d, "type", "object")
             props == setdefault(typed, "properties", <<>>)
             shut  == Put(props, "additionalProperties", FALSE)
         IN  Put(shut, "required", prop_keys(shut))
    ELSE d

\* mutant of harden_schema: the schema itself is hardened, its subschemas are not
harden_schema_shallow(s) == IF s.kind # "dict" THEN s ELSE Dict(harden_object(s.at))

\* lines 18-41
RECURSIVE harden_schema(_)
harden_schema(s) ==
    IF s.kind # "dict" THEN s
    ELSE LET d == harden_object(s.at)
         IN  Dict([k \in DOMAIN d |->
                     IF k \in {"properties", "definitions", "$defs"}
                     THEN [i \in 1..Len(d[k]) |->
                              Item(d[k][i].name, harden_schema(d[k][i].schema))]
                     ELSE IF k = "items"
                     THEN harden_schema(d[k])
                     ELSE IF k \in {"anyOf", "oneOf", "allOf"}
                     THEN [i \in 1..Len(d[k]) |-> harden_schema(d[k][i])]
                     ELSE d[k]])

\* ---- the schemas harden_schema is given ----
Text == Dict([type |-> "string"])

InnerSchema(n) ==
    CASE n = 1 -> Text
      [] n = 2 -> Dict([type |-> "object"])
      [] n = 3 -> Dict([properties |-> <<Item("a", Dict([type |-> "number"]))>>])
      [] n = 4 -> Dict([type |-> "object",
                        properties |-> <<Item("b", Text), Item("a", Dict([type |-> "object"]))>>,
                        required |-> <<"a">>,
                        additionalProperties |-> TRUE])
      [] n = 5 -> Dict([required |-> <<"zz">>])
      [] n = 6 -> NotDict

InnerSchemas == 1..6

\* a schema with sub as the subschema under keyword number w
Around(w, sub) ==
    CASE w = 1 -> Dict([type |-> "object", properties |-> <<Item("p", sub), Item("q", Text)>>])
      [] w = 2 -> Dict([type |-> "array", items |-> sub])
      [] w = 3 -> Dict([type |-> "string", definitions |-> <<Item("d", sub)>>])
      [] w = 4 -> Dict(("$defs" :> <<Item("d", sub)>>) @@ [type |-> "string"])
      [] w = 5 -> Dict([anyOf |-> <<Text, sub>>])
      [] w = 6 -> Dict([oneOf |-> <<sub>>])
      [] w = 7 -> Dict([allOf |-> <<sub, sub>>])

Keywords == 1..7

RECURSIVE SchemaOf(_, _)
SchemaOf(path, n) ==
    IF path = <<>> THEN InnerSchema(n) ELSE Around(Head(path), SchemaOf(Tail(path), n))

InitSchema ==
    /\ pc = "schema"
    /\ FlowIdle
    /\ SceneIdle
    /\ LoadIdle
    /\ RunIdle
    /\ \E depth \in 0..MaxDepth, n \in InnerSchemas :
           \E path \in [1..depth -> Keywords] : schema = SchemaOf(path, n)
    /\ passes = 0
    /\ first = <<>>

\* schema = harden_schema(schema): the argument is changed in place
HardenSchema ==
    /\ pc = "schema"
    /\ passes < 2
    /\ schema' = harden_schema(schema)
    /\ passes' = passes + 1
    /\ first' = IF passes = 0 THEN <<harden_schema(schema)>> ELSE first
    /\ UNCHANGED pc
    /\ UNCHANGED sceneVars
    /\ UNCHANGED loadVars
    /\ UNCHANGED runVars
    /\ UNCHANGED notConsumer_but_pc

NextSchema == HardenSchema

SpecSchema == InitSchema /\ [][NextSchema]_vars

(***************************************************************************)
(* iterative(), lines 209-277, step by step: the document of each approved *)
(* object is written and handed to the renderer processes, and the         *)
(* combined document is written at the end.  A document is kept by its     *)
(* status: "absent", "partial" while it is written, "complete".            *)
(***************************************************************************)
NoSketch == [status |-> "absent", rc_view |-> <<>>]

\* backend = (get_env_str("RENDER_BACKEND", "python") or "python").lower()
backend_of(e) == IF e.RENDER_BACKEND = <<>> THEN "python" ELSE e.RENDER_BACKEND[1]

Process(renderer, on) == [renderer |-> renderer, on |-> on, state |-> "running"]

\* mutant of after_preview: iterative() returns when the preview did not open
after_preview_return_on_failure(rc, backend) ==
    IF rc # 0 THEN "done"
    ELSE IF backend = "blender" THEN "still" ELSE "extend"

\* lines 238-246: whatever run_pyviewer_preview returned, a warning at most;
\* then the still render of the Blender backend, or nothing
after_preview(rc, backend) == IF backend = "blender" THEN "still" ELSE "extend"

\* pyviewer_cli.py lines 33-64: 1 without the script, 0 after Popen, 2 when
\* Popen raised
preview_rc(script_exists, popen_ok) ==
    IF ~script_exists THEN 1 ELSE IF popen_ok THEN 0 ELSE 2

InitHandoff ==
    /\ pc = "build"
    /\ FlowIdle
    /\ SceneIdle
    /\ LoadIdle
    /\ SchemaIdle
    /\ \E b \in {<<>>, <<"blender">>} : env = [NoEnv EXCEPT !.RENDER_BACKEND = b]
    /\ idx = 1
    /\ \E n \in 1..MaxApproved : sketches = [i \in 1..n |-> NoSketch]
    /\ combined_json = "absent"
    /\ processes = <<>>
    /\ rc_view = <<>>

handoffFrame ==
    <<plan, given, before, kb, object_entry, rf, max_parts, doc,
      heap, per_object, finalized_parts, combined, obj, mesh, mobject, bobject,
      scene, frames, text, loaded, schema, passes, first, env>>

\* line 214: plan, comps = _build_object_plan(obj, rf=rf, max_parts=max_parts);
\* a ValidationError leaves iterative()
BuildSketch ==
    /\ pc = "build"
    /\ \E entry \in ObjectEntries, parts \in PartLists :
           LET dicts == PartsOrFallback(
                            CollectParts(KbResult(1, <<parts>>), entry,
                                         preferred_color(entry), max_parts),
                            entry)
           IN  pc' = IF Validates(dicts) THEN "open" ELSE "raised"
    /\ UNCHANGED <<idx, sketches, combined_json, processes, rc_view>>
    /\ UNCHANGED handoffFrame

\* line 232: with plan_json.open("w", encoding="utf-8") as f
OpenSketch ==
    /\ pc = "open"
    /\ sketches' = [sketches EXCEPT ![idx].status = "partial"]
    /\ pc' = "dump"
    /\ UNCHANGED <<idx, combined_json, processes, rc_view>>
    /\ UNCHANGED handoffFrame

\* line 233 and the end of the with block: the document is dumped and closed
DumpSketch ==
    /\ pc = "dump"
    /\ sketches' = [sketches EXCEPT ![idx].status = "complete"]
    /\ pc' = "view"
    /\ UNCHANGED <<idx, combined_json, processes, rc_view>>
    /\ UNCHANGED handoffFrame

\* lines 238-244 and run_pyviewer_preview: the viewer is spawned with Popen and
\* not waited for
RunPyviewerPreview ==
    /\ pc = "view"
    /\ \E script_exists \in BOOLEAN, popen_ok \in BOOLEAN :
           LET rc == preview_rc(script_exists, popen_ok)
           IN  /\ rc_view' = <<[rc |-> rc, script_exists |-> script_exists,
                                spawned |-> script_exists /\ popen_ok]>>
               /\ processes' = IF script_exists /\ popen_ok
                               THEN Append(processes, Process("viewer", idx))
                               ELSE processes
               /\ sketches' = [sketches EXCEPT ![idx].rc_view = <<rc>>]
               /\ pc' = after_preview(rc, backend_of(env))
    /\ UNCHANGED <<idx, combined_json>>
    /\ UNCHANGED handoffFrame

\* lines 246-249 and run_blender_still: without the script it raises, else
\* Blender is started with subprocess.run
RunBlenderStill ==
    /\ pc = "still"
    /\ \E script_exists \in BOOLEAN :
           IF script_exists
           THEN /\ processes' = Append(processes, Process("blender", idx))
                /\ pc' = "still_wait"
           ELSE /\ pc' = "raised"
                /\ UNCHANGED processes
    /\ UNCHANGED <<idx, sketches, combined_json, rc_view>>
    /\ UNCHANGED handoffFrame

\* subprocess.run returns when Blender has exited; lines 263-264: the question
\* whether to open Blender is answered
StillReturns ==
    /\ pc = "still_wait"
    /\ processes[Len(processes)].state = "exited"
    /\ \E yes \in BOOLEAN : pc' = IF yes THEN "gui" ELSE "extend"
    /\ UNCHANGED <<idx, sketches, combined_json, processes, rc_view>>
    /\ UNCHANGED handoffFrame

\* lines 265-267 and open_blender_gui: Blender is run on the document, for the
\* .blend file and then with its window, and waited for
OpenBlenderGui ==
    /\ pc = "gui"
    /\ processes' = Append(processes, Process("blender", idx))
    /\ pc' = "gui_wait"
    /\ UNCHANGED <<idx, sketches, combined_json, rc_view>>
    /\ UNCHANGED handoffFrame

GuiReturns ==
    /\ pc = "gui_wait"
    /\ processes[Len(processes)].state = "exited"
    /\ pc' = "extend"
    /\ UNCHANGED <<idx, sketches, combined_json, processes, rc_view>>
    /\ UNCHANGED handoffFrame

\* line 269 and the head of the loop, line 209
NextObject ==
    /\ pc = "extend"
    /\ IF idx < Len(sketches)
       THEN /\ idx' = idx + 1
            /\ pc' = "build"
       ELSE /\ pc' = "combine"
            /\ UNCHANGED idx
    /\ UNCHANGED <<sketches, combined_json, processes, rc_view>>
    /\ UNCHANGED handoffFrame

\* lines 271-276: combined = normalize_plan(ScenePlan(...)); the file is opened
OpenCombined ==
    /\ pc = "combine"
    /\ combined_json' = "partial"
    /\ pc' = "combine_dump"
    /\ UNCHANGED <<idx, sketches, processes, rc_view>>
    /\ UNCHANGED handoffFrame

\* line 277 and the end of the with block
DumpCombined ==
    /\ pc = "combine_dump"
    /\ combined_json' = "complete"
    /\ pc' = "done"
    /\ UNCHANGED <<idx, sketches, processes, rc_view>>
    /\ UNCHANGED handoffFrame

\* a renderer process ends
Exits(renderer) ==
    /\ \E i \in 1..Len(processes) :
           /\ processes[i].renderer = renderer
           /\ processes[i].state = "running"
           /\ processes' = [processes EXCEPT ![i].state = "exited"]
    /\ UNCHANGED <<pc, idx, sketches, combined_json, rc_view>>
    /\ UNCHANGED handoffFrame

ViewerExits == Exits("viewer")

BlenderExits == Exits("blender")

\* the steps of iterative() itself
Iterative ==
    \/ BuildSketch
    \/ OpenSketch
    \/ DumpSketch
    \/ RunPyviewerPreview
    \/ RunBlenderStill
    \/ StillReturns
    \/ OpenBlenderGui
    \/ GuiReturns
    \/ NextObject
    \/ OpenCombined
    \/ DumpCombined

NextHandoff == Iterative \/ ViewerExits \/ BlenderExits

SpecHandoff == InitHandoff /\ [][NextHandoff]_vars

\* iterative() runs on as long as it has a step to take, and a Blender that
\* subprocess.run waits for ends; nothing is assumed of a viewer
FairHandoff == SpecHandoff /\ WF_vars(Iterative) /\ WF_vars(BlenderExits)

(***************************************************************************)
(* Properties.                                                             *)
(***************************************************************************)
Normalized == pc \in {"normalized", "renormalized"}

SixTypes == {"cube", "sphere", "cylinder", "cone", "plane", "torus"}

IsSupported(o) == o.type \in SixTypes

\* The objects of the plan handed to normalize_plan that have a supported type.
Kept == SelectSeq(given.objects, IsSupported)

Names(objs) == [i \in 1..Len(objs) |-> objs[i].name]

\* x limited to [lo, hi]
Limited(x, lo, hi) == IF x < lo THEN lo ELSE IF x > hi THEN hi ELSE x

\* component i of an input vector, a missing one read as 0
Comp(vec, i) == IF i <= Len(vec) THEN vec[i] ELSE 0

AllIn(vec, lo, hi) == \A i \in 1..Len(vec) : lo <= vec[i] /\ vec[i] <= hi

TransformInRange(t) ==
    /\ AllIn(t.location, -100000, 100000)
    /\ AllIn(t.rotation_degrees, -360000, 360000)
    /\ AllIn(t.scale, 50, 50000)

\* C1: normalize_plan is idempotent: normalizing a normalized plan returns it
\* unchanged, field for field.
C1_Idempotent == pc = "renormalized" => plan = before

C1_Witness ==
    /\ pc = "renormalized"
    /\ given # plan
    /\ \E i \in 1..Len(given.objects) :
          /\ given.objects[i].type = "plane"
          /\ Len(given.objects[i].transform.scale) < 3

\* C2: after normalize_plan every object (an inserted default object included) has
\* dimensions and scale in [0.05, 50], rotation in [-360, 360] and location in
\* [-100, 100]; the camera transform is in the same location, rotation and scale ranges.
C2_Ranges ==
    Normalized =>
        /\ TransformInRange(plan.camera.transform)
        /\ \A i \in 1..Len(plan.objects) :
              /\ TransformInRange(plan.objects[i].transform)
              /\ AllIn(plan.objects[i].dimensions, 50, 50000)

C2_Witness ==
    /\ pc = "normalized"
    /\ Comp(given.camera.transform.location, 2) > 100000
    /\ \E i \in 1..Len(given.objects) :
          /\ IsSupported(given.objects[i])
          /\ Comp(given.objects[i].transform.location, 1) < -100000
          /\ Comp(given.objects[i].dimensions, 2) > 50000

\* C3: a normalized plan always has at least one object.
C3_NonEmpty == Normalized => Len(plan.objects) >= 1

C3_Witness ==
    /\ pc = "normalized"
    /\ Len(given.objects) >= 1
    /\ Kept = <<>>

\* C4: normalize_plan removes exactly the objects of unsupported type: every object
\* of a supported type is retained, none of an unsupported type remains, and when
\* none is retained the result is exactly the single default cube.
C4_TypeFilter ==
    pc = "normalized" =>
        /\ \A i \in 1..Len(plan.objects) : IsSupported(plan.objects[i])
        /\ \A i \in 1..Len(given.objects) :
              IsSupported(given.objects[i]) =>
                  \E j \in 1..Len(plan.objects) :
                      /\ plan.objects[j].name = given.objects[i].name
                      /\ plan.objects[j].type = given.objects[i].type
        /\ Kept # <<>> => Len(plan.objects) = Len(Kept)
        /\ Kept = <<>> => plan.objects = <<DefaultCube>>

C4_Witness ==
    /\ pc = "normalized"
    /\ \E i, j \in 1..Len(given.objects) :
          /\ given.objects[i].type = "teapot"
          /\ given.objects[j].type = "torus"

\* The parts of the synthesis result that _build_object_plan consumes hold one of
\* an unsupported type.
ConsumedUnsupported ==
    \E k \in 1..Len(kb) :
        \E j \in 1..Len(kb[k].parts) :
            j <= max_parts /\ kb[k].parts[j].type \notin SixTypes

\* Number of consumed parts of a supported type.
RECURSIVE ConsumedSupported(_)
ConsumedSupported(k) ==
    IF k = <<>>
    THEN 0
    ELSE Cardinality({j \in 1..Len(Head(k).parts) :
                          j <= max_parts /\ Head(k).parts[j].type \in SixTypes})
         + ConsumedSupported(Tail(k))

\* C5: when the synthesis output holds a part of an unsupported type, building the
\* object's plan drops that part and goes on with the remaining parts; it does not fail.
C5_UnsupportedPartDropped ==
    (pc # "approved" /\ ConsumedUnsupported) =>
        /\ pc # "raised"
        /\ \A i \in 1..Len(plan.objects) : IsSupported(plan.objects[i])
        /\ ConsumedSupported(kb) > 0 => Len(plan.objects) = ConsumedSupported(kb)

\* C6: the default object inserted for an empty object list is a cube of dimensions
\* (1,1,1) and color (0.6,0.7,0.9) at location (0, 0, 0.5).
C6_DefaultCubeAtHalfHeight ==
    (pc = "normalized" /\ Kept = <<>>) =>
        /\ Len(plan.objects) = 1
        /\ plan.objects[1].type = "cube"
        /\ plan.objects[1].dimensions = <<1000, 1000, 1000>>
        /\ plan.objects[1].color = [r |-> 600, g |-> 700, b |-> 900]
        /\ plan.objects[1].transform.location = <<0, 0, 500>>

\* C7: after normalize_plan duration_seconds is in [0.5, 5], fps in [12, 60],
\* resolution_x in [320, 1920], resolution_y in [180, 1080]: a value below its range
\* has become the lower bound, one above the upper bound, one in range is unchanged.
C7_RenderClamped ==
    pc = "normalized" =>
        /\ plan.render.duration_seconds = Limited(given.render.duration_seconds, 500, 5000)
        /\ plan.render.fps = Limited(given.render.fps, 12000, 60000)
        /\ plan.render.resolution_x = Limited(given.render.resolution_x, 320000, 1920000)
        /\ plan.render.resolution_y = Limited(given.render.resolution_y, 180000, 1080000)

C7_Witness ==
    /\ pc = "normalized"
    /\ given.render.duration_seconds < 500
    /\ given.render.fps > 60000
    /\ given.render.resolution_x = plan.render.resolution_x
    /\ given.render.resolution_y < 180000

\* Vector out is the three-component normalisation of the input vector in.
ThreeFrom(out, in, lo, hi) ==
    /\ Len(out) = 3
    /\ \A i \in 1..3 : i > Len(in) => out[i] = Limited(0, lo, hi)

\* C8: after normalize_plan every location, rotation_degrees and scale of the camera
\* and of each retained object, and every retained object's dimensions, has exactly
\* 3 components; a component missing in the input is 0 for location and rotation and
\* 0.05 for scale and dimensions.
C8_ThreeComponents ==
    pc = "normalized" =>
        /\ ThreeFrom(plan.camera.transform.location, given.camera.transform.location,
                     -100000, 100000)
        /\ ThreeFrom(plan.camera.transform.rotation_degrees,
                     given.camera.transform.rotation_degrees, -360000, 360000)
        /\ ThreeFrom(plan.camera.transform.scale, given.camera.transform.scale, 50, 50000)
        /\ \A i \in 1..Len(plan.objects) : Len(plan.objects[i].dimensions) = 3
        /\ \A i \in 1..Len(Kept) :
              /\ plan.objects[i].name = Kept[i].name
              /\ ThreeFrom(plan.objects[i].transform.location,
                           Kept[i].transform.location, -100000, 100000)
              /\ ThreeFrom(plan.objects[i].transform.rotation_degrees,
                           Kept[i].transform.rotation_degrees, -360000, 360000)
              /\ ThreeFrom(plan.objects[i].transform.scale,
                           Kept[i].transform.scale, 50, 50000)
              /\ ThreeFrom(plan.objects[i].dimensions, Kept[i].dimensions, 50, 50000)

C8_Witness ==
    /\ pc = "normalized"
    /\ Len(given.camera.transform.scale) < 3
    /\ \E i, j \in 1..Len(Kept) :
          /\ Len(Kept[i].dimensions) < 3
          /\ Len(Kept[i].transform.rotation_degrees) = 0
          /\ Len(Kept[j].transform.location) > 3

\* C9: after normalize_plan every plane has rotation (0,0,0), and a plane whose
\* clamped location.z is closer to zero than 0.01 has location.z exactly 0; x and y
\* of a plane, and rotation and location of every other object, are only clamped.
C9_PlaneLeveling ==
    pc = "normalized" =>
        \A i \in 1..Len(Kept) :
            LET in  == Kept[i].transform
                out == plan.objects[i].transform
                x   == Limited(Comp(in.location, 1), -100000, 100000)
                y   == Limited(Comp(in.location, 2), -100000, 100000)
                z   == Limited(Comp(in.location, 3), -100000, 100000)
                rot == [k \in 1..3 |->
                           Limited(Comp(in.rotation_degrees, k), -360000, 360000)]
            IN  IF Kept[i].type = "plane"
                THEN /\ out.rotation_degrees = <<0, 0, 0>>
                     /\ out.location = <<x, y, IF -10 < z /\ z < 10 THEN 0 ELSE z>>
                ELSE /\ out.rotation_degrees = rot
                     /\ out.location = <<x, y, z>>

C9_Witness ==
    /\ pc = "normalized"
    /\ \E i, j \in 1..Len(Kept) :
          /\ Kept[i].type = "plane"
          /\ Kept[i].transform.rotation_degrees = <<10000, 20000, 30000>>
          /\ Comp(Kept[i].transform.location, 3) = 4
          /\ plan.objects[i].transform.location[3] = 0
          /\ Kept[j].type # "plane"
          /\ Comp(Kept[j].transform.location, 3) = 4
          /\ plan.objects[j].transform.location[3] = 4

\* C10 as stated: the names of the objects of the normalized plan are the names of
\* the input objects of supported type, in input order.
C10_NamesAreKeptNames == pc = "normalized" => Names(plan.objects) = Names(Kept)

\* C10, amended: the same whenever an object of supported type exists; otherwise the
\* normalized plan holds the one inserted object, named DefaultCube.
C10_OrderPreserved ==
    pc = "normalized" =>
        Names(plan.objects) = IF Kept = <<>> THEN <<"DefaultCube">> ELSE Names(Kept)

C10_Witness ==
    /\ pc = "normalized"
    /\ Len(Kept) >= 2
    /\ Kept[1].name # Kept[2].name
    /\ Kept[1].type # Kept[2].type

\* ---------------------------------------------------------------------------
\* Helpers for the document flow.
AllColors(p) ==
    {p.render.background_color} \cup {p.objects[i].color : i \in 1..Len(p.objects)}

Animations(p) ==
    {p.objects[i].animation[1] : i \in {j \in 1..Len(p.objects) : p.objects[j].animation # <<>>}}
    \cup (IF p.camera.animation = <<>> THEN {} ELSE {p.camera.animation[1]})

KeyTimes(a) ==
    {a.location_keys[i].time : i \in 1..Len(a.location_keys)}
    \cup {a.rotation_keys[i].time : i \in 1..Len(a.rotation_keys)}
    \cup {a.scale_keys[i].time : i \in 1..Len(a.scale_keys)}

HasPlan == pc \in {"loaded", "normalized", "written", "read_back", "read_back_normalized"}

\* C11: the document written from a normalized plan validates, the plan read
\* back from it equals the plan that was written in every field, and
\* normalizing the plan read back changes nothing.
C11_RoundTrip ==
    /\ pc = "written" => Accepted(doc)
    /\ pc = "read_back" => plan = before
    /\ pc = "read_back_normalized" => plan = before /\ validate_ScenePlan(doc) = plan

\* C11 witness: a plan with an animated object that the normalizer had to change
\* went through writing, reading back and the second normalization.
C11_Witness ==
    /\ pc = "read_back_normalized"
    /\ given # plan
    /\ Len(plan.objects) >= 2
    /\ \E i \in 1..Len(plan.objects) :
           /\ plan.objects[i].animation # <<>>
           /\ plan.objects[i].transform.scale # DefaultScale

InUnit(c) == AllIn(<<c.r, c.g, c.b>>, 0, 1000)

\* the component of a constructed Color against the component given for it
ComponentAgrees(v, key) == key # <<>> => v = Limited(key[1], 0, 1000)

ColorAgrees(c, key) ==
    key # <<>> => /\ ComponentAgrees(c.r, key[1].r)
                  /\ ComponentAgrees(c.g, key[1].g)
                  /\ ComponentAgrees(c.b, key[1].b)

\* C12: every component of a constructed Color is the given value limited to
\* [0,1] (below 0 gives 0, above 1 gives 1, a value inside is kept), and every
\* object color and the background color of a plan built from a document lies
\* in [0,1], also after normalize_plan.
C12_ColorsInUnit ==
    /\ HasPlan => \A c \in AllColors(plan) : InUnit(c)
    /\ pc = "loaded" =>
           /\ \A i \in 1..Len(plan.objects) :
                  ColorAgrees(plan.objects[i].color, doc.objects[1][i].color)
           /\ doc.render # <<>> =>
                  ColorAgrees(plan.render.background_color, doc.render[1].background_color)

\* C12 witness: a document color with one component above 1, one below 0 and
\* one inside has been constructed, next to a background color outside [0,1].
C12_Witness ==
    /\ pc = "loaded"
    /\ doc.render # <<>>
    /\ doc.render[1].background_color # <<>>
    /\ doc.render[1].background_color[1].b[1] > 1000
    /\ plan.render.background_color.b = 1000
    /\ \E i \in 1..Len(plan.objects) :
           /\ doc.objects[1][i].color # <<>>
           /\ doc.objects[1][i].color[1].r = <<1200>>
           /\ doc.objects[1][i].color[1].g = <<-100>>
           /\ plan.objects[i].color = [r |-> 1000, g |-> 0, b |-> 500]

\* C13: every Keyframe of a plan (of an object or of the camera) has a time of
\* at least 0, once the plan is constructed from a document and after
\* normalize_plan.
C13_KeyframeTimes ==
    HasPlan => \A a \in Animations(plan) : \A t \in KeyTimes(a) : t >= 0

\* ---------------------------------------------------------------------------
\* Helpers for iterative().
\* the object lists of all plans that exist: the per-object plans, then the
\* combined plan
PlanObjects ==
    [k \in 1..Len(per_object) |-> per_object[k].objects]
    \o [k \in 1..Len(combined) |-> combined[k].objects]

RECURSIVE Concat(_)
Concat(seqs) == IF seqs = <<>> THEN <<>> ELSE Head(seqs) \o Concat(Tail(seqs))

\* C14: no ObjectSpec instance (with its nested Transform and Color) is in the
\* object list of more than one ScenePlan, at any point of iterative().
C14_NoSharedObject ==
    \A id \in 1..Len(heap) :
        Cardinality({k \in 1..Len(PlanObjects) : id \in Range(PlanObjects[k])}) <= 1

\* C15: the normalize_plan call on the combined plan leaves every object of
\* every per-object plan as it was written to the per-object document, and the
\* objects of the combined plan are, in order, the objects written to the
\* per-object documents.
C15_CombinedChangesNothing ==
    pc = "combined" =>
        /\ \A k \in 1..Len(per_object) :
               DumpObjects(heap, per_object[k].objects) = per_object[k].written
        /\ combined[1].written =
               Concat([k \in 1..Len(per_object) |-> per_object[k].written])

\* C15 witness: two per-object plans, one of them with two parts that the
\* normalizer had to complete, were combined.
C15_Witness ==
    /\ pc = "combined"
    /\ Len(per_object) >= 2
    /\ Len(combined[1].objects) >= 3
    /\ \E i \in 1..Len(kb) : \E j \in 1..Len(kb[i].parts) :
           /\ kb[i].parts[j].dimensions # <<>>
           /\ Len(kb[i].parts[j].dimensions[1]) < 3
           /\ kb[i].parts[j].type \in SUPPORTED

\* ---------------------------------------------------------------------------
\* Helpers for the builders.
\* what has been built of obj so far, by any builder
BuiltByAny ==
    {b \in Range(mesh) \cup Range(mobject) \cup Range(bobject) : b.kind = "mesh"}

MeshBuilt == mesh # <<>> /\ mesh[1].kind = "mesh"
MobjectBuilt == mobject # <<>> /\ mobject[1].kind = "mesh"
BobjectBuilt == bobject # <<>> /\ bobject[1].kind = "mesh"

\* the extents that are the dimensions themselves (in millionths)
OverallExtents(dims) == <<1000 * dims[1], 1000 * dims[2], 1000 * dims[3]>>

\* C16: a sphere built from three dimensions (each within the normalized range
\* [0.05, 50]) has, in every builder, the extent dimensions[i] along each local
\* axis i.
C16_SphereExtents ==
    (obj.type = "sphere" /\ Len(obj.dimensions) = 3 /\ AllIn(obj.dimensions, 50, 50000)) =>
        \A b \in BuiltByAny : b.extents = OverallExtents(obj.dimensions)

\* C17: a plane (of dimensions within the normalized range [0.05, 50]) is
\* built, by the viewer and by Manim, as a box of width dimensions[0], height
\* dimensions[1] and strictly positive thickness: dimensions[2] when given,
\* 0.01 otherwise.
C17_PlaneIsBox ==
    (obj.type = "plane" /\ Len(obj.dimensions) >= 2 /\ AllIn(obj.dimensions, 50, 50000)) =>
        \A b \in {x \in Range(mesh) \cup Range(mobject) : x.kind = "mesh"} :
            /\ b.extents[1] = 1000 * obj.dimensions[1]
            /\ b.extents[2] = 1000 * obj.dimensions[2]
            /\ b.extents[3] > 0
            /\ b.extents[3] = IF Len(obj.dimensions) > 2 THEN 1000 * obj.dimensions[3]
                                                          ELSE 10000

\* the vertex of ring i (of 64) and place j (of 32), both wrapped
Vertex(i, j) == (i % 64) * 32 + (j % 32)

\* the mesh of the viewer's torus: 64*32 vertices, 64*32*2 triangles of valid,
\* distinct indices, the two triangles of the quad at vertex (i, j) joining it
\* to its neighbours in the next ring and at the next place, wrapped
TorusMeshAsStated(t) ==
    /\ t.vertices = <<64 * 32>>
    /\ t.faces # <<>>
    /\ Len(t.faces[1]) = 64 * 32 * 2
    /\ \A n \in 1..Len(t.faces[1]) :
           LET f == t.faces[1][n]
           IN  /\ \A k \in 1..3 : f[k] \in 0..(64 * 32 - 1)
               /\ Cardinality({f[1], f[2], f[3]}) = 3
    /\ \A i \in 0..63, j \in 0..31 :
           LET q == i * 32 + j
           IN  /\ t.faces[1][2 * q + 1] =
                      <<Vertex(i, j), Vertex(i + 1, j), Vertex(i + 1, j + 1)>>
               /\ t.faces[1][2 * q + 2] =
                      <<Vertex(i, j), Vertex(i + 1, j + 1), Vertex(i, j + 1)>>

\* C18 as stated: R = ((d0+d1)/2)/2, r = d2/2, or max(0.1, 0.2*d0)/2 without a
\* third dimension (the builders: the viewer and Blender), and the mesh.
C18_TorusAsStated ==
    (obj.type = "torus" /\ Len(obj.dimensions) >= 2) =>
        /\ \A b \in {x \in Range(mesh) \cup Range(bobject) : x.kind = "mesh"} :
               /\ b.torus[1].R = (obj.dimensions[1] + obj.dimensions[2]) * 250
               /\ b.torus[1].r = IF Len(obj.dimensions) > 2
                                 THEN obj.dimensions[3] * 500
                                 ELSE Max(100000, 200 * obj.dimensions[1]) \div 2
        /\ MeshBuilt => TorusMeshAsStated(mesh[1].torus[1])

\* C18: the viewer's torus has R = ((d0+d1)/2)/2 and r = d2/2, or without a
\* third dimension r = max(0.1, 0.2*d0)/2 with a d0 of 0 taken as 1.0; Blender's
\* torus has the radii max(0.001, (d0+d1)/2)/2 and max(0.001, d2)/2, the same
\* ones unless a diameter is below 0.001; the viewer's mesh has 64*32 vertices
\* and 64*32*2 triangles of valid indices, wrapped modulo 64 and 32.
C18_Torus ==
    (obj.type = "torus" /\ Len(obj.dimensions) >= 2) =>
        /\ MeshBuilt =>
               /\ mesh[1].torus[1].R = (obj.dimensions[1] + obj.dimensions[2]) * 250
               /\ mesh[1].torus[1].r =
                      IF Len(obj.dimensions) > 2
                      THEN obj.dimensions[3] * 500
                      ELSE IF obj.dimensions[1] = 0
                      THEN 100000
                      ELSE Max(100000, 200 * obj.dimensions[1]) \div 2
               /\ TorusMeshAsStated(mesh[1].torus[1])
        /\ BobjectBuilt =>
               /\ bobject[1].torus[1].R =
                      Max(500, (obj.dimensions[1] + obj.dimensions[2]) * 250)
               /\ bobject[1].torus[1].r = Max(500, obj.dimensions[3] * 500)
               /\ (MeshBuilt /\ obj.dimensions[1] + obj.dimensions[2] >= 2
                             /\ obj.dimensions[3] >= 1) =>
                      /\ bobject[1].torus[1].R = mesh[1].torus[1].R
                      /\ bobject[1].torus[1].r = mesh[1].torus[1].r

\* C18 witness: the torus of dimensions (2, 2, 0.6) has been built by the viewer
\* with R = 1.0 and r = 0.3, and by Blender.
C18_Witness ==
    /\ obj.type = "torus"
    /\ obj.dimensions = <<2000, 2000, 600>>
    /\ MeshBuilt
    /\ BobjectBuilt
    /\ mesh[1].torus[1].R = 1000000
    /\ mesh[1].torus[1].r = 300000

StatedPose(t) ==
    MatMul(translation_matrix(t.location),
           MatMul(RotateX(t.rotation_degrees[1]),
                  MatMul(RotateY(t.rotation_degrees[2]), RotateZ(t.rotation_degrees[3]))))

ExtrinsicPose(t) ==
    MatMul(translation_matrix(t.location),
           MatMul(RotateZ(t.rotation_degrees[3]),
                  MatMul(RotateY(t.rotation_degrees[2]), RotateX(t.rotation_degrees[1]))))

\* C19 as stated: the pose every builder gives to the geometry is the product
\* Translate(location) * RotateX(rx) * RotateY(ry) * RotateZ(rz).
C19_PoseAsStated == \A b \in BuiltByAny : b.pose = StatedPose(obj.transform)

\* C19: the pose every builder gives to the geometry is the product
\* Translate(location) * RotateZ(rz) * RotateY(ry) * RotateX(rx): the rotation
\* about the fixed X axis acts first, then the one about Y, then the one about
\* Z, then the translation; the three builders give the same pose.
C19_Pose ==
    /\ \A b \in BuiltByAny : b.pose = ExtrinsicPose(obj.transform)
    /\ \A b1, b2 \in BuiltByAny : b1.pose = b2.pose

\* C19 witness: all three builders have built an object that is moved and
\* turned by 90 degrees about X and about Y, where the order of the rotations
\* shows.
C19_Witness ==
    /\ MeshBuilt /\ MobjectBuilt /\ BobjectBuilt
    /\ obj.transform.rotation_degrees = <<90000, 90000, 0>>
    /\ obj.transform.location # <<0, 0, 0>>
    /\ StatedPose(obj.transform) # ExtrinsicPose(obj.transform)

WithScale(o, sc) == [o EXCEPT !.transform.scale = sc]

\* C20: the scale of the transform does not affect what is built: with any
\* other scale in its place, the viewer and Blender build the same geometry
\* and pose.
C20_ScaleNotApplied ==
    \A sc \in ScaleSamples :
        /\ mesh # <<>> => mesh[1] = make_mesh(WithScale(obj, sc))
        /\ bobject # <<>> => bobject[1] = build_primitive(WithScale(obj, sc))

\* C20 witness: the viewer and Blender have built an object whose transform
\* has a scale other than (1, 1, 1).
C20_Witness ==
    /\ MeshBuilt /\ BobjectBuilt
    /\ obj.transform.scale # DefaultScale
    /\ obj.dimensions = <<1000, 3000, 50>>


\* ---- the camera framing ----
ViewerFramed == frames.viewer # <<>>

\* the boxes of the meshes the viewer built for the loaded document
ViewerBoxes == {bounds(m) : m \in Range(scene_meshes(scene.objects))}

Least(S) == CHOOSE x \in S : \A y \in S : x <= y
Greatest(S) == CHOOSE x \in S : \A y \in S : x >= y

\* s is the square root of d2, rounded down
IsRoot(s, d2) == s >= 0 /\ s * s <= d2 /\ d2 < (s + 1) * (s + 1)

\* C21: without meshes the viewer frames the origin from distance 5.0; with
\* meshes the framing center is the midpoint of the union bounding box and the
\* distance is the larger of 1.0 and 1.8 times the diagonal of that box, so it
\* is never below 1.0.
C21_AutoFrame ==
    ViewerFramed =>
        LET f     == frames.viewer[1]
            boxes == ViewerBoxes
        IN  /\ f.distance >= 1000
            /\ boxes = {} => f.center = <<0, 0, 0>> /\ f.distance = 5000
            /\ boxes # {} =>
                   LET lo == [i \in 1..3 |-> Least({b.min[i] : b \in boxes})]
                       hi == [i \in 1..3 |-> Greatest({b.max[i] : b \in boxes})]
                       d2 == SquaredLength([i \in 1..3 |-> hi[i] - lo[i]])
                   IN  /\ \A i \in 1..3 : f.center[i] = (lo[i] + hi[i]) \div 2
                       /\ \E s \in (0..556) \cup {(10 * f.distance) \div 18,
                                                  (10 * f.distance) \div 18 + 1} :
                              IsRoot(s, d2) /\ f.distance = Max(1000, (18 * s) \div 10)

\* a document with several meshes apart from each other was framed, and one
\* whose only mesh is so small that the lower limit of the distance applies
C21_Witness ==
    /\ ViewerFramed
    /\ Cardinality(ViewerBoxes) >= 2
    /\ frames.viewer[1].distance > 1000
    /\ frames.viewer[1].center # <<0, 0, 0>>

C21_WitnessLimit ==
    ViewerFramed /\ ViewerBoxes # {} /\ frames.viewer[1].distance = 1000

\* C22: the eye of the viewer's camera is at Euclidean distance exactly the
\* framing distance from the framing center (up to the rounding of a
\* thousandth per axis).
C22_EyeAtDistance ==
    ViewerFramed =>
        LET f == frames.viewer[1]
            gap == Distance(f.eye, f.center) - f.distance
        IN  -3 <= gap /\ gap <= 3

\* C23: Manim and Blender, where they frame the scene, frame the center and
\* the distance the viewer frames.
C23_SameFraming ==
    (ViewerFramed /\ frames.manim # <<>> /\ frames.blender # <<>>) =>
        /\ \A f \in Range(frames.manim[1]) :
               f.center = frames.viewer[1].center /\ f.distance = frames.viewer[1].distance
        /\ \A f \in Range(frames.blender[1]) :
               f.center = frames.viewer[1].center /\ f.distance = frames.viewer[1].distance

\* ---- lenient loading ----
Stripped == strip_line(strip_block(text))

ValuesOf(txt) == SelectSeq(txt, LAMBDA t : t \in JsonValues)

IsJson(txt) == ValuesOf(txt) # <<>> /\ \A i \in 1..Len(txt) : txt[i] \in JsonValues \cup {"nl"}

\* C24: a text that is strict JSON is returned as parsed, without stripping;
\* otherwise, if the text without its comments is JSON, that is returned as
\* parsed; otherwise the error raised is the one of the strict parse of the
\* original text, not the one of the retry.
C24_LenientFallback ==
    loaded # <<>> =>
        /\ IsJson(text) => loaded[1].ok /\ loaded[1].value = ValuesOf(text)
        /\ (~IsJson(text) /\ IsJson(Stripped)) =>
               loaded[1].ok /\ loaded[1].value = ValuesOf(Stripped)
        /\ (~IsJson(text) /\ ~IsJson(Stripped)) =>
               /\ ~loaded[1].ok
               /\ loaded[1].doc = text
               /\ loaded[1].pos \in 1..(Len(text) + 1)
               /\ \A i \in 1..(loaded[1].pos - 1) : text[i] \in JsonValues \cup {"nl"}
               /\ loaded[1].pos <= Len(text) => text[loaded[1].pos] \notin JsonValues \cup {"nl"}

\* both parses failed, on a text whose comments were stripped for the retry
C24_Witness ==
    /\ loaded # <<>>
    /\ ~loaded[1].ok
    /\ Stripped # text
    /\ ~IsJson(Stripped)
    /\ loads(Stripped).pos # loaded[1].pos

\* ---- kitbash flattening ----
\* the parts of a synthesis result in entry order then part order, each with
\* the name of its parent
RECURSIVE PartsInOrder(_, _)
PartsInOrder(k, entry) ==
    IF k = <<>> THEN <<>>
    ELSE [j \in 1..Len(Head(k).parts) |->
             [parent |-> Prefix(Head(k), entry), part |-> Head(k).parts[j]]]
         \o PartsInOrder(Tail(k), entry)

\* a plan was built from a synthesis result with parts, none cut by the budget
Flattened ==
    /\ pc = "normalized"
    /\ rf > 0
    /\ PartsInOrder(kb, object_entry) # <<>>
    /\ \A i \in 1..Len(kb) : Len(kb[i].parts) <= max_parts

\* C25: the plan _build_object_plan constructs from a synthesis result has one
\* object per part, in parent order then part order, named parent_part, with
\* the location and the rotation of the part, scale (1,1,1), and the part's
\* own color when it has one, gray (0.7,0.7,0.7) when it has none.
C25_FlattenedParts ==
    Flattened =>
        LET parts == PartsInOrder(kb, object_entry)
        IN  /\ Len(given.objects) = Len(parts)
            /\ \A i \in 1..Len(parts) :
                   LET o == given.objects[i]
                       p == parts[i].part
                   IN  /\ o.name = parts[i].parent \o "_" \o Get(p.name, "Part")
                       /\ o.transform.location = Get(p.location, <<0, 0, 0>>)
                       /\ o.transform.rotation_degrees = Get(p.rotation_degrees, <<0, 0, 0>>)
                       /\ o.transform.scale = <<1000, 1000, 1000>>
                       /\ p.color # <<>> =>
                              o.color = Color(p.color[1].r, p.color[1].g, p.color[1].b)
                       /\ p.color = <<>> => o.color = Gray

\* ---- the budget of parts ----
BudgetDetermined == pc # "start"

\* the budget the reality factor stands for, without a cap
BudgetOf(r) == IF r > 100 THEN 100 ELSE IF r >= 1 THEN r ELSE 1

Uncapped == env.KITBASH_MAX_PARTS = <<>>

\* C26: the budget is the reality factor for 1..100 and 100 above it, always
\* within 1..100; a cap KITBASH_MAX_PARTS only lowers it, and not below 1; with
\* reality factor 0 nothing is synthesized and the plan of the object is
\* exactly one placeholder cube.
C26_Budget ==
    BudgetDetermined =>
        /\ max_parts \in 1..100
        /\ Uncapped => max_parts = BudgetOf(rf)
        /\ rf \in 1..100 /\ Uncapped => max_parts = rf
        /\ rf > 100 /\ Uncapped => max_parts = 100
        /\ max_parts <= BudgetOf(rf)
        /\ (rf = 0 /\ pc \in {"normalized", "raised"}) =>
               /\ pc = "normalized"
               /\ kb = <<>>
               /\ plan.description = <<"placeholder for " \o Get(object_entry.name, "Object")>>
               /\ Len(plan.objects) = 1
               /\ plan.objects[1].type = "cube"
               /\ plan.objects[1].name = Get(object_entry.name, "Object") \o "_Cube"
               /\ plan.objects[1].dimensions = <<1000, 1000, 1000>>

\* a reality factor above 100 was clamped, and a cap lowered a budget
C26_Witness ==
    /\ BudgetDetermined
    /\ rf > 100
    /\ env.KITBASH_MAX_PARTS # <<>>
    /\ max_parts < BudgetOf(rf)
    /\ pc = "normalized"

C26_WitnessPlaceholder ==
    BudgetDetermined /\ rf = 0 /\ pc = "normalized" /\ Len(plan.objects) = 1

\* C27: the plan _build_object_plan returns for one object has at most
\* max_parts objects, whatever the synthesis returned.
C27_WithinBudget ==
    (pc = "normalized" /\ rf > 0 /\ kb # <<>>) => Len(plan.objects) <= max_parts

\* ---- schema hardening ----
\* the subschemas directly under a schema, through properties, items,
\* definitions, $defs, anyOf, oneOf and allOf
Subschemas(s) ==
    IF s.kind # "dict" THEN {}
    ELSE UNION {
           IF k \in {"properties", "definitions", "$defs"}
           THEN {s.at[k][i].schema : i \in 1..Len(s.at[k])}
           ELSE IF k = "items" THEN {s.at[k]}
           ELSE IF k \in {"anyOf", "oneOf", "allOf"}
           THEN {s.at[k][i] : i \in 1..Len(s.at[k])}
           ELSE {} : k \in DOMAIN s.at}

RECURSIVE Reachable(_)
Reachable(s) == {s} \cup UNION {Reachable(c) : c \in Subschemas(s)}

DeclaresObject(s) ==
    /\ s.kind = "dict"
    /\ \/ "type" \in DOMAIN s.at /\ s.at["type"] = "object"
       \/ "properties" \in DOMAIN s.at
       \/ "required" \in DOMAIN s.at

Strict(s) ==
    /\ "additionalProperties" \in DOMAIN s.at
    /\ s.at["additionalProperties"] = FALSE
    /\ "required" \in DOMAIN s.at
    /\ "properties" \in DOMAIN s.at
    /\ Len(s.at["required"]) = Len(s.at["properties"])
    /\ \A i \in 1..Len(s.at["properties"]) : s.at["required"][i] = s.at["properties"][i].name

Returned == Range(mesh) \cup Range(mobject) \cup Range(bobject)

\* the object is as normalize_plan leaves one: a supported type and three
\* dimensions within [0.05, 50]
NormalizedObject ==
    /\ obj.type \in SUPPORTED
    /\ Len(obj.dimensions) = 3
    /\ AllIn(obj.dimensions, 50, 50000)

\* C29: a builder returns no geometry for an object whose type is not one of
\* the six primitives, and returns geometry for every object as normalized
\* plans have them.
C29_GeometryForNormalized ==
    /\ obj.type \notin PrimitiveType => \A b \in Returned : b.kind = "none"
    /\ NormalizedObject => \A b \in Returned : b.kind = "mesh"

\* ---- the document handoff ----
\* every renderer process was started on a document that is completely written
WrittenBeforeLaunch ==
    \A i \in 1..Len(processes) : sketches[processes[i].on].status = "complete"

\* what run_pyviewer_preview returned: 1 without the script, 0 with the viewer
\* spawned, 2 when spawning failed
ReturnCodes ==
    rc_view # <<>> =>
        /\ rc_view[1].rc \in {0, 1, 2}
        /\ rc_view[1].rc = 1 <=> ~rc_view[1].script_exists
        /\ rc_view[1].rc = 0 <=> rc_view[1].spawned
        /\ rc_view[1].rc = 2 <=> (rc_view[1].script_exists /\ ~rc_view[1].spawned)

\* the call of run_pyviewer_preview goes on to the next statement of the loop,
\* with the viewer it spawned still running
NeitherWaitsNorRaises ==
    (pc = "view" /\ pc' # "view") =>
        /\ pc' \in {"still", "extend"}
        /\ rc_view'[1].rc = 0 =>
               /\ Len(processes') = Len(processes) + 1
               /\ processes'[Len(processes')] = Process("viewer", idx)

ViewerLaunchFailed ==
    \E i \in 1..Len(sketches) : sketches[i].rc_view \in {<<1>>, <<2>>}

AllWritten ==
    /\ combined_json = "complete"
    /\ \A i \in 1..Len(sketches) : sketches[i].status = "complete"

\* C30: a renderer process is only launched on a completely written document;
\* run_pyviewer_preview returns 0, 1 or 2 as stated, without raising and
\* without waiting for the viewer; and after a failed viewer launch every
\* object's document and the combined document are eventually written, unless
\* the construction of a plan or the start of Blender raises.
C30_Handoff ==
    /\ []WrittenBeforeLaunch
    /\ []ReturnCodes
    /\ [][NeitherWaitsNorRaises]_vars
    /\ ViewerLaunchFailed ~> (AllWritten \/ pc = "raised")

\* the viewer failed to open for the first object, opened for a later one and
\* is still running when the combined document is written
C30_Witness ==
    /\ pc = "done"
    /\ AllWritten
    /\ Len(sketches) >= 2
    /\ sketches[1].rc_view \in {<<1>>, <<2>>}
    /\ \E i \in 1..Len(processes) :
           processes[i].renderer = "viewer" /\ processes[i].state = "running"

====
